---- MODULE Spec2Model ----
(***************************************************************************)
(* DocuAgent: the confidence scorer (utils/confidence_scoring.py), the     *)
(* rule validator (utils/validation.py), the extractor's post-processing   *)
(* (agents/extraction_agent.py) and the pipeline that chains them          *)
(* (agents/document_processor.py).                                         *)
(*                                                                         *)
(* Representation.                                                         *)
(*  - A Python str is a sequence of one-character strings.                 *)
(*  - A field value is a record [t, s, n]: t = "null" (None), "str" (s is  *)
(*    the text), "num" (a JSON / Python number, n its value in hundredths) *)
(*    or "big" (a Python int beyond the range of float).                   *)
(*  - A Python float that takes part in the validator's arithmetic is an   *)
(*    IEEE-754 binary64 value [neg, m, e] = (-1)^neg * m * 2^e whose       *)
(*    mantissa m is a magnitude of at most 53 bits;                             *)
(*    float(), + and - round to nearest, ties to even.                     *)
(*  - A confidence is an integer number of 1/CONF_ONE (fixed point).       *)
(***************************************************************************)
EXTENDS Integers, Sequences, FiniteSets, TLC

(***************************************************************************)
(* Generic helpers                                                         *)
(***************************************************************************)
Min(a, b) == IF a < b THEN a ELSE b

Max(a, b) == IF a > b THEN a ELSE b

Abs(a) == IF a < 0 THEN -a ELSE a

\* F applied to the value v: a local name for v that is evaluated once
Bind(v, F(_)) == F(v)

(***************************************************************************)
(* IEEE-754 binary64 arithmetic (Python float).  A magnitude is a          *)
(* little-endian sequence of limbs in base LIMB_BASE with no leading zero  *)
(* limb; <<>> is zero.                                                     *)
(***************************************************************************)
\* Width of a binary64 significand.
MANT_BITS == 53

\* Bits per limb of a magnitude.
LIMB_BITS == 15

LIMB_BASE == 2 ^ LIMB_BITS

\* Fraction bits kept below the binary point while converting a decimal.
DEC_SHIFT == 75

RECURSIVE LimbsOf(_)
LimbsOf(n) == IF n = 0 THEN <<>> ELSE <<n % LIMB_BASE>> \o LimbsOf(n \div LIMB_BASE)

RECURSIVE Trim(_)
Trim(b) ==
    IF b = <<>> THEN <<>>
    ELSE IF b[Len(b)] = 0 THEN Trim(SubSeq(b, 1, Len(b) - 1)) ELSE b

Limb(b, i) == IF i >= 1 /\ i <= Len(b) THEN b[i] ELSE 0

RECURSIVE BAddC(_, _, _, _)
BAddC(a, b, i, c) ==
    IF i > Len(a) /\ i > Len(b) THEN (IF c = 1 THEN <<1>> ELSE <<>>)
    ELSE LET s == Limb(a, i) + Limb(b, i) + c
         IN  <<s % LIMB_BASE>> \o BAddC(a, b, i + 1, s \div LIMB_BASE)

BAdd(a, b) == BAddC(a, b, 1, 0)

RECURSIVE BSubC(_, _, _, _)
BSubC(a, b, i, c) ==
    IF i > Len(a) THEN <<>>
    ELSE LET d == Limb(a, i) - Limb(b, i) - c
         IN  <<d % LIMB_BASE>> \o BSubC(a, b, i + 1, IF d < 0 THEN 1 ELSE 0)

\* a - b for a >= b
BSub(a, b) == Trim(BSubC(a, b, 1, 0))

RECURSIVE BCmpAt(_, _, _)
BCmpAt(a, b, i) ==
    IF i = 0 THEN 0
    ELSE IF a[i] # b[i] THEN (IF a[i] > b[i] THEN 1 ELSE -1)
    ELSE BCmpAt(a, b, i - 1)

\* -1, 0, 1 as a < b, a = b, a > b
BCmp(a, b) ==
    IF Len(a) # Len(b) THEN (IF Len(a) > Len(b) THEN 1 ELSE -1)
    ELSE BCmpAt(a, b, Len(a))

\* a * 2^k
Shl(a, k) ==
    IF a = <<>> \/ k <= 0 THEN a
    ELSE LET q == k \div LIMB_BITS
             p == 2 ^ (k % LIMB_BITS)
             w == [i \in 1..(Len(a) + 1) |->
                     ((Limb(a, i) * p) % LIMB_BASE) + ((Limb(a, i - 1) * p) \div LIMB_BASE)]
         IN  [i \in 1..q |-> 0] \o Trim(w)

\* floor(a / 2^k)
Shr(a, k) ==
    IF a = <<>> \/ k <= 0 THEN a
    ELSE LET q == k \div LIMB_BITS
             r == k % LIMB_BITS
             p == 2 ^ r
             h == 2 ^ (LIMB_BITS - r)
         IN  Trim([i \in 1..(Len(a) - q) |->
                     (Limb(a, i + q) \div p) + ((Limb(a, i + q + 1) % p) * h)])

\* number of bits of a limb
LimbLen(x) == CHOOSE k \in 0..LIMB_BITS : x < 2 ^ k /\ (k = 0 \/ x >= 2 ^ (k - 1))

BitLen(a) == IF a = <<>> THEN 0 ELSE (LIMB_BITS * (Len(a) - 1)) + LimbLen(a[Len(a)])

\* bit i (from 0) of a
Bit(a, i) == (Limb(a, (i \div LIMB_BITS) + 1) \div (2 ^ (i % LIMB_BITS))) % 2

RECURSIVE DivStep(_, _, _, _, _)
DivStep(b, d, i, r, acc) ==
    IF i = 0 THEN [q |-> Trim(acc), r |-> r]
    ELSE LET r2 == (r * LIMB_BASE) + b[i]
         IN  DivStep(b, d, i - 1, r2 % d, <<r2 \div d>> \o acc)

\* quotient and remainder of a magnitude by a small positive integer
DivSmall(b, d) == DivStep(b, d, Len(b), 0, <<>>)

\* Round the exact magnitude m * 2^e (plus a nonzero tail below its last bit
\* when sticky) to MANT_BITS bits, to nearest, ties to even.
RoundBits(m, e, sticky) ==
    Bind(BitLen(m) - MANT_BITS, LAMBDA k :
        IF k <= 0 THEN [m |-> m, e |-> e]
        ELSE Bind(Shr(m, k), LAMBDA q :
                 \* half: the first dropped bit; low: something below it
                 IF /\ Bit(m, k - 1) = 1
                    /\ (sticky \/ Shl(Shr(m, k - 1), k - 1) # m \/ Bit(q, 0) = 1)
                 THEN [m |-> BAdd(q, <<1>>), e |-> e + k]
                 ELSE [m |-> q, e |-> e + k]))

FZero == [neg |-> FALSE, m |-> <<>>, e |-> 0]

\* the float of sign neg nearest to the exact magnitude m * 2^e
Rounded(neg, m, e, sticky) ==
    Bind(RoundBits(m, e, sticky), LAMBDA r :
        IF r.m = <<>> THEN FZero ELSE [neg |-> neg, m |-> r.m, e |-> r.e])

\* float("n/100"): the binary64 nearest to the decimal n hundredths
FromCents(n) ==
    IF n = 0 THEN FZero
    ELSE Bind(DivSmall(Shl(LimbsOf(Abs(n)), DEC_SHIFT), 100), LAMBDA d :
             Rounded(n < 0, d.q, -DEC_SHIFT, d.r # 0))

\* magnitudes of x and y over their common exponent
Aligned(x, y) ==
    Bind(IF x.m = <<>> THEN y.e ELSE IF y.m = <<>> THEN x.e ELSE Min(x.e, y.e), LAMBDA e0 :
        [a |-> Shl(x.m, x.e - e0), b |-> Shl(y.m, y.e - e0), e |-> e0])

FCmpMag(x, y) == Bind(Aligned(x, y), LAMBDA al : BCmp(al.a, al.b))


\* x + y, rounded
FAdd(x, y) ==
    Bind(Aligned(x, y), LAMBDA al :
        Bind(IF x.neg = y.neg THEN 2 ELSE BCmp(al.a, al.b), LAMBDA c :
            Bind(CASE c = 2 -> [neg |-> x.neg, m |-> BAdd(al.a, al.b)]
                   [] c = 1 -> [neg |-> x.neg, m |-> BSub(al.a, al.b)]
                   [] c = 0 -> [neg |-> FALSE, m |-> <<>>]
                   [] OTHER -> [neg |-> y.neg, m |-> BSub(al.b, al.a)],
                 LAMBDA exact : Rounded(exact.neg, exact.m, al.e, FALSE))))

FNeg(x) == IF x.m = <<>> THEN x ELSE [x EXCEPT !.neg = ~x.neg]

FSub(x, y) == FAdd(x, FNeg(y))

FAbs(x) == [x EXCEPT !.neg = FALSE]

\* x < y
FLess(x, y) ==
    IF x.neg /\ ~y.neg THEN TRUE
    ELSE IF ~x.neg /\ y.neg THEN FALSE
    ELSE IF x.neg THEN FCmpMag(x, y) > 0
    ELSE FCmpMag(x, y) < 0

(***************************************************************************)
(* Python str: sequences of one-character strings                          *)
(***************************************************************************)
DIGITS == <<"0", "1", "2", "3", "4", "5", "6", "7", "8", "9">>

LOWERS == <<"a", "b", "c", "d", "e", "f", "g", "h", "i", "j", "k", "l", "m", "n", "o", "p", "q", "r", "s", "t", "u", "v", "w", "x", "y", "z">>

UPPERS == <<"A", "B", "C", "D", "E", "F", "G", "H", "I", "J", "K", "L", "M", "N", "O", "P", "Q", "R", "S", "T", "U", "V", "W", "X", "Y", "Z">>

\* The printable ASCII characters in code-point order, from the space (32).
\* The double quote, the backslash and the backtick do not occur in the
\* model's strings; a placeholder keeps their place in the order.
ASCII ==
    <<" ", "!", "dquote", "#", "$", "%", "&", "'", "(", ")", "*", "+", ",", "-", ".", "/">>
    \o DIGITS \o <<":", ";", "<", "=", ">", "?", "@">> \o UPPERS
    \o <<"[", "backslash", "]", "^", "_", "backtick">> \o LOWERS \o <<"{", "|", "}", "~">>

Range(f) == {f[i] : i \in DOMAIN f}

DigitSet == Range(DIGITS)

LowerSet == Range(LOWERS)

UpperSet == Range(UPPERS)

AlphaSet == LowerSet \cup UpperSet

\* \w
WordSet == AlphaSet \cup DigitSet \cup {"_"}

\* \s
SpaceSet == {" ", "\t", "\n", "\r"}

IndexIn(seq, c) == CHOOSE i \in DOMAIN seq : seq[i] = c

\* ord(c); characters outside printable ASCII do not occur in the model
OrdTable == [c \in Range(ASCII) |-> 31 + IndexIn(ASCII, c)]

Ord(c) == IF c \in DOMAIN OrdTable THEN OrdTable[c] ELSE 10

DigitTable == [c \in DigitSet |-> IndexIn(DIGITS, c) - 1]

DigitVal(c) == DigitTable[c]

LowerTable == [c \in UpperSet |-> LOWERS[IndexIn(UPPERS, c)]]

LowerChar(c) == IF c \in UpperSet THEN LowerTable[c] ELSE c

\* str.lower()
Lower(s) == [i \in 1..Len(s) |-> LowerChar(s[i])]

AllIn(s, set) == \A i \in 1..Len(s) : s[i] \in set

\* int(s) for a string of decimal digits
RECURSIVE IntOf(_)
IntOf(s) == IF s = <<>> THEN 0 ELSE (10 * IntOf(SubSeq(s, 1, Len(s) - 1))) + DigitVal(s[Len(s)])

\* the decimal digits of a natural number, str(n)
RECURSIVE DigitsOf(_)
DigitsOf(n) == IF n < 10 THEN <<DIGITS[n + 1]>> ELSE DigitsOf(n \div 10) \o <<DIGITS[(n % 10) + 1]>>

\* n zero-padded to at least w digits, f"{n:0wd}"
RECURSIVE Pad(_, _)
Pad(s, w) == IF Len(s) >= w THEN s ELSE Pad(<<"0">> \o s, w)

\* sub occurs in s at position i
OccursAt(s, sub, i) ==
    i >= 1 /\ i + Len(sub) - 1 <= Len(s) /\ SubSeq(s, i, i + Len(sub) - 1) = sub

\* sub in s
Contains(s, sub) == \E i \in 1..(Len(s) - Len(sub) + 1) : OccursAt(s, sub, i)

\* a < b for Python strings: by code point, a proper prefix first
StrLess(a, b) ==
    \/ \E i \in 1..Min(Len(a), Len(b)) :
          /\ \A j \in 1..(i - 1) : a[j] = b[j]
          /\ Ord(a[i]) < Ord(b[i])
    \/ Len(a) < Len(b) /\ \A j \in 1..Len(a) : a[j] = b[j]

\* the characters of s that satisfy keep, in order
Filter(s, keep) == SelectSeq(s, LAMBDA c : c \in keep)

\* the characters of s outside drop, in order
RECURSIVE Remove(_, _)
Remove(s, drop) ==
    IF s = <<>> THEN <<>>
    ELSE (IF Head(s) \in drop THEN <<>> ELSE <<Head(s)>>) \o Remove(Tail(s), drop)

\* str.strip()
Strip(s) ==
    LET idx == {i \in 1..Len(s) : s[i] \notin SpaceSet}
    IN  IF idx = {} THEN <<>>
        ELSE SubSeq(s, CHOOSE i \in idx : \A j \in idx : i <= j,
                       CHOOSE i \in idx : \A j \in idx : i >= j)

\* some run of at least k consecutive characters of set occurs in s
HasRun(s, set, k) ==
    \E i \in 1..(Len(s) - k + 1) : \A j \in i..(i + k - 1) : s[j] \in set

(***************************************************************************)
(* Field values and their Python semantics                                 *)
(***************************************************************************)
VNull == [t |-> "null", s |-> <<>>, n |-> 0]

VStr(s) == [t |-> "str", s |-> s, n |-> 0]

\* the number n / 100
VNum(n) == [t |-> "num", s |-> <<>>, n |-> n]

\* an int too large for float()
VBig == [t |-> "big", s |-> <<>>, n |-> 0]

\* bool(v)
Truthy(v) ==
    CASE v.t = "null" -> FALSE
      [] v.t = "str"  -> v.s # <<>>
      [] v.t = "num"  -> v.n # 0
      [] OTHER        -> TRUE

\* float(s) of a str: optional blanks and sign, digits with an optional
\* fraction.  The strings of the model carry at most two decimals and no
\* exponent; the result is in hundredths.
ParseFloat(s) ==
    Bind(Strip(s), LAMBDA t :
    Bind(IF t # <<>> /\ t[1] \in {"-", "+"} THEN Tail(t) ELSE t, LAMBDA u :
    Bind({i \in 1..Len(u) : u[i] = "."}, LAMBDA dots :
    Bind(IF dots = {} THEN Len(u) + 1 ELSE CHOOSE i \in dots : TRUE, LAMBDA dot :
    Bind(SubSeq(u, 1, dot - 1), LAMBDA ip :
    Bind(SubSeq(u, dot + 1, Len(u)), LAMBDA fp :
        IF /\ Cardinality(dots) <= 1
           /\ AllIn(ip, DigitSet) /\ AllIn(fp, DigitSet)
           /\ Len(ip) + Len(fp) >= 1
           /\ Len(fp) <= 2 /\ Len(ip) <= 7
        THEN [ok |-> TRUE,
              n  |-> (IF t[1] = "-" THEN -1 ELSE 1)
                     * ((100 * IntOf(ip)) + IntOf(SubSeq(fp \o <<"0", "0">>, 1, 2)))]
        ELSE [ok |-> FALSE, n |-> 0]))))))

\* float(v): [err, f] with err "" on success, else the class of the exception
PyFloat(v) ==
    CASE v.t = "null" -> [err |-> "TypeError", f |-> FZero]
      [] v.t = "big"  -> [err |-> "OverflowError", f |-> FZero]
      [] v.t = "num"  -> [err |-> "", f |-> FromCents(v.n)]
      [] OTHER        ->
           Bind(ParseFloat(v.s), LAMBDA p :
               IF p.ok THEN [err |-> "", f |-> FromCents(p.n)]
               ELSE [err |-> "ValueError", f |-> FZero])

\* repr of a float with at most two decimals, as str(v) gives it
FloatStr(n) ==
    LET a == Abs(n)
        f == a % 100
        frac == IF f % 10 = 0 THEN DigitsOf(f \div 10) ELSE Pad(DigitsOf(f), 2)
    IN  (IF n < 0 THEN <<"-">> ELSE <<>>) \o DigitsOf(a \div 100) \o <<".">> \o frac

\* str(v) of a value that is not None
StrOf(v) ==
    CASE v.t = "str" -> v.s
      [] v.t = "num" -> FloatStr(v.n)
      [] OTHER       -> Pad(<<"1">>, 1) \o [i \in 1..400 |-> "0"]

(***************************************************************************)
(* utils/validation.py: the calendar                                       *)
(***************************************************************************)
IsLeap(y) == (y % 4 = 0 /\ y % 100 # 0) \/ y % 400 = 0

DaysInMonth(y, m) ==
    IF m \in {4, 6, 9, 11} THEN 30
    ELSE IF m = 2 THEN (IF IsLeap(y) THEN 29 ELSE 28)
    ELSE 31

\* number of days of the months of year y before month m
RECURSIVE DaysBeforeMonth(_, _)
DaysBeforeMonth(y, m) ==
    IF m <= 1 THEN 0 ELSE DaysBeforeMonth(y, m - 1) + DaysInMonth(y, m - 1)

\* datetime(y, m, d).toordinal(): days since 0001-01-01, plus one
Ordinal(y, m, d) ==
    LET p == y - 1
    IN  (365 * p) + (p \div 4) - (p \div 100) + (p \div 400) + DaysBeforeMonth(y, m) + d

\* the pieces of s between the occurrences of sep (s.split(sep))
Split(s, sep) ==
    LET cuts == {i \in 1..Len(s) : s[i] = sep}
        prev(i) == IF \E j \in cuts : j < i
                   THEN CHOOSE j \in cuts : j < i /\ \A k \in cuts : k < i => k <= j
                   ELSE 0
        ends == cuts \cup {Len(s) + 1}
        ord(i) == Cardinality({j \in ends : j <= i})
    IN  [k \in 1..Cardinality(ends) |->
            LET e == CHOOSE i \in ends : ord(i) = k
            IN  SubSeq(s, prev(e) + 1, e - 1)]

\* datetime.strptime(s, '%Y-%m-%d'): [ok, ord]; ok is FALSE for ValueError
Strptime(s) ==
    LET okTok(p, hi) ==
            \/ /\ Len(p) \in {1, 2} /\ AllIn(p, DigitSet)
               /\ IntOf(p) >= 1 /\ IntOf(p) <= hi
            \/ /\ hi = 31 /\ Len(p) = 2 /\ p[1] = " " /\ p[2] \in DigitSet /\ p[2] # "0"
        num(p) == IntOf(Remove(p, {" "}))
    IN  Bind(Split(s, "-"), LAMBDA parts :
            IF /\ Len(parts) = 3
               /\ Len(parts[1]) = 4 /\ AllIn(parts[1], DigitSet)
               /\ okTok(parts[2], 12) /\ okTok(parts[3], 31)
               /\ IntOf(parts[1]) >= 1
               /\ num(parts[3]) <= DaysInMonth(IntOf(parts[1]), num(parts[2]))
            THEN [ok |-> TRUE, ord |-> Ordinal(IntOf(parts[1]), num(parts[2]), num(parts[3]))]
            ELSE [ok |-> FALSE, ord |-> 0])

(***************************************************************************)
(* utils/validation.py: DocumentValidator                                  *)
(***************************************************************************)
\* re.match(r'^\d{4}-\d{2}-\d{2}$', s); $ also matches before a final newline
MatchDatePattern(s) ==
    LET n == IF Len(s) = 11 /\ s[11] = "\n" THEN 10 ELSE Len(s)
    IN  /\ n = 10
        /\ \A i \in {1, 2, 3, 4, 6, 7, 9, 10} : s[i] \in DigitSet
        /\ s[5] = "-" /\ s[8] = "-"

\* re.match(r'^\(\d{3}\) \d{3}-\d{4}$|^\d{10}$', s)
MatchPhonePattern(s) ==
    LET n(k) == IF Len(s) = k + 1 /\ s[k + 1] = "\n" THEN k ELSE Len(s)
    IN  \/ /\ n(14) = 14
           /\ s[1] = "(" /\ s[5] = ")" /\ s[6] = " " /\ s[10] = "-"
           /\ \A i \in {2, 3, 4, 7, 8, 9, 11, 12, 13, 14} : s[i] \in DigitSet
        \/ /\ n(10) = 10
           /\ \A i \in 1..10 : s[i] \in DigitSet

ReMatch(pattern, s) ==
    IF pattern = "date" THEN MatchDatePattern(s) ELSE MatchPhonePattern(s)

\* One rule of a catalogue.  validation is "" when the rule has no
\* 'validation' key; pattern is "" when it has no 'pattern' key ("date" is
\* r'^\d{4}-\d{2}-\d{2}$', "phone" the phone expression).
RuleConfig(name, validation, pattern, fields, rule, lo, hi) ==
    [name |-> name, validation |-> validation, pattern |-> pattern,
     fields |-> fields, rule |-> rule, min_value |-> lo, max_value |-> hi]

\* 'tolerance': 0.01
TOLERANCE_CENTS == 1

\* the float 0.01
TOLERANCE == FromCents(TOLERANCE_CENTS)

get_invoice_validation_rules ==
    << RuleConfig("date_format", "", "date", <<<<"i", "n", "v", "o", "i", "c", "e", "_", "d", "a", "t", "e">>, <<"d", "u", "e", "_", "d", "a", "t", "e">>>>, "", 0, 0),
       RuleConfig("amount_format", "numeric_positive", "",
                  <<<<"s", "u", "b", "t", "o", "t", "a", "l">>, <<"t", "a", "x", "_", "a", "m", "o", "u", "n", "t">>, <<"t", "o", "t", "a", "l", "_", "a", "m", "o", "u", "n", "t">>>>, "", 0, 0),
       RuleConfig("totals_match", "cross_field", "", <<>>,
                  "subtotal + tax_amount = total_amount", 0, 0),
       RuleConfig("due_date_logic", "cross_field", "", <<>>,
                  "due_date >= invoice_date", 0, 0),
       RuleConfig("required_fields", "not_empty", "",
                  <<<<"i", "n", "v", "o", "i", "c", "e", "_", "n", "u", "m", "b", "e", "r">>, <<"t", "o", "t", "a", "l", "_", "a", "m", "o", "u", "n", "t">>, <<"v", "e", "n", "d", "o", "r", "_", "n", "a", "m", "e">>>>, "", 0, 0) >>

get_medical_bill_validation_rules ==
    << RuleConfig("date_format", "", "date", <<<<"s", "e", "r", "v", "i", "c", "e", "_", "d", "a", "t", "e">>, <<"p", "a", "t", "i", "e", "n", "t", "_", "d", "o", "b">>>>, "", 0, 0),
       RuleConfig("amount_format", "numeric_positive", "",
                  <<<<"t", "o", "t", "a", "l", "_", "c", "h", "a", "r", "g", "e", "s">>, <<"i", "n", "s", "u", "r", "a", "n", "c", "e", "_", "p", "a", "i", "d">>, <<"p", "a", "t", "i", "e", "n", "t", "_", "r", "e", "s", "p", "o", "n", "s", "i", "b", "i", "l", "i", "t", "y">>>>, "", 0, 0),
       RuleConfig("charges_breakdown", "cross_field", "", <<>>,
                  "insurance_paid + patient_responsibility = total_charges", 0, 0),
       RuleConfig("patient_age_logic", "date_logic", "", <<>>,
                  "patient_dob should result in reasonable age (0-120 years)", 0, 0),
       RuleConfig("required_fields", "not_empty", "",
                  <<<<"p", "a", "t", "i", "e", "n", "t", "_", "n", "a", "m", "e">>, <<"p", "r", "o", "v", "i", "d", "e", "r", "_", "n", "a", "m", "e">>, <<"t", "o", "t", "a", "l", "_", "c", "h", "a", "r", "g", "e", "s">>>>, "", 0, 0) >>

get_prescription_validation_rules ==
    << RuleConfig("date_format", "", "date", <<<<"p", "r", "e", "s", "c", "r", "i", "p", "t", "i", "o", "n", "_", "d", "a", "t", "e">>, <<"p", "a", "t", "i", "e", "n", "t", "_", "d", "o", "b">>>>, "", 0, 0),
       RuleConfig("phone_format", "", "phone", <<<<"p", "h", "a", "r", "m", "a", "c", "y", "_", "p", "h", "o", "n", "e">>>>, "", 0, 0),
       RuleConfig("refills_range", "numeric_range", "", <<<<"r", "e", "f", "i", "l", "l", "s">>>>, "", 0, 12),
       RuleConfig("prescription_age", "date_logic", "", <<>>,
                  "prescription_date should be within last 2 years", 0, 0),
       RuleConfig("required_fields", "not_empty", "",
                  <<<<"p", "a", "t", "i", "e", "n", "t", "_", "n", "a", "m", "e">>, <<"d", "o", "c", "t", "o", "r", "_", "n", "a", "m", "e">>, <<"m", "e", "d", "i", "c", "a", "t", "i", "o", "n", "s">>>>, "", 0, 0) >>

\* self.validation_rules
validation_rules ==
    [invoice      |-> get_invoice_validation_rules,
     medical_bill |-> get_medical_bill_validation_rules,
     prescription |-> get_prescription_validation_rules]

\* field.get('confidence', default); rated tells whether the dict has the key
GetConfidence(field, default) ==
    IF field.rated THEN field.confidence ELSE default

\* {field['name']: field['value'] for field in fields}: a later field of the
\* same name replaces an earlier one
FieldDict(fields) ==
    [nm \in {fields[i].name : i \in 1..Len(fields)} |->
        LET idx == {i \in 1..Len(fields) : fields[i].name = nm}
        IN  fields[CHOOSE i \in idx : \A j \in idx : j <= i].value]

\* field_dict.get(name)
DictGet(d, name) == IF name \in DOMAIN d THEN d[name] ELSE VNull

\* field_dict.get(name, 0) or 0
DictGetOr0(d, name) ==
    IF name \in DOMAIN d /\ Truthy(d[name]) THEN d[name] ELSE VNum(0)

\* What a validate_* method returns: passed, the optional 'warning' flag, the
\* message as [text, field], and raised # "" when an exception left it.
RuleResult(passed, warning, text, field) ==
    [passed |-> passed, warning |-> warning, raised |-> "",
     message |-> [text |-> text, field |-> field]]

RuleRaised(exc) ==
    [passed |-> FALSE, warning |-> FALSE, raised |-> exc,
     message |-> [text |-> exc, field |-> <<>>]]

\* the first index of 1..n that satisfies P, or 0
FirstIndex(n, P(_)) ==
    IF \E i \in 1..n : P(i) THEN CHOOSE i \in 1..n : P(i) /\ \A j \in 1..(i - 1) : ~P(j)
    ELSE 0

validate_pattern(rule_config, field_dict) ==
    LET fs == rule_config.fields
        bad(i) == Bind(DictGet(field_dict, fs[i]), LAMBDA value :
                      Truthy(value) /\ ~ReMatch(rule_config.pattern, StrOf(value)))
    IN  Bind(FirstIndex(Len(fs), bad), LAMBDA k :
            IF k # 0 THEN RuleResult(FALSE, FALSE, "pattern", fs[k])
            ELSE RuleResult(TRUE, FALSE, "Pattern validation passed", <<>>))

\* The loop body of the two numeric checks on field i: "" when the loop goes
\* on, else how the method ends there.
NumericOutcome(field_dict, name, lo_set, lo, hi_set, hi) ==
    Bind(DictGet(field_dict, name), LAMBDA value :
        IF value.t = "null" THEN ""
        ELSE Bind(PyFloat(value), LAMBDA c :
                 IF c.err = "OverflowError" THEN "raise"
                 ELSE IF c.err # "" THEN "not_a_number"
                 ELSE IF lo_set /\ FLess(c.f, FromCents(100 * lo)) THEN "out_of_range"
                 ELSE IF hi_set /\ FLess(FromCents(100 * hi), c.f) THEN "out_of_range"
                 ELSE ""))

validate_numeric_positive(rule_config, field_dict) ==
    LET fs == rule_config.fields IN
    Bind([i \in 1..Len(fs) |-> NumericOutcome(field_dict, fs[i], TRUE, 0, FALSE, 0)],
         LAMBDA out :
    Bind(FirstIndex(Len(fs), LAMBDA i : out[i] # ""), LAMBDA k :
        IF k = 0 THEN RuleResult(TRUE, FALSE, "Numeric validation passed", <<>>)
        ELSE IF out[k] = "raise" THEN RuleRaised("OverflowError")
        ELSE IF out[k] = "out_of_range" THEN RuleResult(FALSE, FALSE, "must be positive", fs[k])
        ELSE RuleResult(FALSE, FALSE, "is not a valid number", fs[k])))

validate_numeric_range(rule_config, field_dict) ==
    LET fs == rule_config.fields IN
    Bind([i \in 1..Len(fs) |-> NumericOutcome(field_dict, fs[i], TRUE, rule_config.min_value,
                                              TRUE, rule_config.max_value)],
         LAMBDA out :
    Bind(FirstIndex(Len(fs), LAMBDA i : out[i] # ""), LAMBDA k :
        IF k = 0 THEN RuleResult(TRUE, FALSE, "Range validation passed", <<>>)
        ELSE IF out[k] = "raise" THEN RuleRaised("OverflowError")
        ELSE IF out[k] = "out_of_range" THEN RuleResult(FALSE, FALSE, "must be between", fs[k])
        ELSE RuleResult(FALSE, FALSE, "is not a valid number", fs[k])))

\* abs(float(a) + float(b) - float(c)) > tolerance, with the exception of
\* the first conversion that fails
SumMismatch(field_dict, a, b, c) ==
    Bind([k \in {a, b, c} |-> PyFloat(DictGetOr0(field_dict, k))], LAMBDA fl :
        IF fl[a].err # "" THEN [err |-> fl[a].err, mismatch |-> FALSE]
        ELSE IF fl[b].err # "" THEN [err |-> fl[b].err, mismatch |-> FALSE]
        ELSE IF fl[c].err # "" THEN [err |-> fl[c].err, mismatch |-> FALSE]
        ELSE Bind(FAdd(fl[a].f, fl[b].f), LAMBDA calculated_total :
                 [err |-> "",
                  mismatch |-> FLess(TOLERANCE, FAbs(FSub(calculated_total, fl[c].f)))]))

\* x <= y in the place of x < y
PyLessOrEqual(x, y) ==
    IF x.t = "str" /\ y.t = "str" THEN (IF x.s = y.s \/ StrLess(x.s, y.s) THEN "lt" ELSE "ge")
    ELSE IF x.t = "num" /\ y.t = "num" THEN (IF x.n <= y.n THEN "lt" ELSE "ge")
    ELSE "TypeError"

\* due_date < invoice_date: "lt", "ge", or "TypeError" for unordered types
PyLess(x, y) ==
    IF x.t = "str" /\ y.t = "str" THEN (IF StrLess(x.s, y.s) THEN "lt" ELSE "ge")
    ELSE IF x.t = "num" /\ y.t = "num" THEN (IF x.n < y.n THEN "lt" ELSE "ge")
    ELSE IF x.t \in {"num", "big"} /\ y.t \in {"num", "big"}
         THEN (IF y.t = "big" /\ x.t = "num" THEN "lt" ELSE "ge")
    ELSE "TypeError"

validate_cross_field(rule_config, field_dict) ==
    LET rule == rule_config.rule
        passed == RuleResult(TRUE, FALSE, "Cross-field validation passed", <<>>)
        caught == RuleResult(FALSE, FALSE, "Cross-field validation error", <<>>)
        sum(a, b, c, text) ==
            Bind(SumMismatch(field_dict, a, b, c), LAMBDA m :
                IF m.err = "OverflowError" THEN RuleRaised("OverflowError")
                ELSE IF m.err # "" THEN caught
                ELSE IF m.mismatch THEN RuleResult(FALSE, FALSE, text, <<>>)
                ELSE passed)
    IN  IF rule = "subtotal + tax_amount = total_amount"
        THEN sum(<<"s", "u", "b", "t", "o", "t", "a", "l">>, <<"t", "a", "x", "_", "a", "m", "o", "u", "n", "t">>, <<"t", "o", "t", "a", "l", "_", "a", "m", "o", "u", "n", "t">>, "Total mismatch")
        ELSE IF rule = "insurance_paid + patient_responsibility = total_charges"
        THEN sum(<<"i", "n", "s", "u", "r", "a", "n", "c", "e", "_", "p", "a", "i", "d">>, <<"p", "a", "t", "i", "e", "n", "t", "_", "r", "e", "s", "p", "o", "n", "s", "i", "b", "i", "l", "i", "t", "y">>, <<"t", "o", "t", "a", "l", "_", "c", "h", "a", "r", "g", "e", "s">>,
                 "Charges mismatch")
        ELSE IF rule = "due_date >= invoice_date"
        THEN LET invoice_date == DictGet(field_dict, <<"i", "n", "v", "o", "i", "c", "e", "_", "d", "a", "t", "e">>)
                 due_date == DictGet(field_dict, <<"d", "u", "e", "_", "d", "a", "t", "e">>)
             IN  IF Truthy(invoice_date) /\ Truthy(due_date)
                 THEN Bind(PyLess(due_date, invoice_date), LAMBDA less :
                          CASE less = "lt" ->
                                 RuleResult(FALSE, FALSE, "Due date is before invoice date", <<>>)
                            [] less = "TypeError" -> caught
                            [] OTHER -> passed)
                 ELSE passed
        ELSE passed

\* 120 years of 365.25 days, and the two years of the recency rule
MAX_AGE_YEARS == 120

MAX_RX_DAYS == 730

\* the same result without the 'warning' key
RxExpiredQuietly == RuleResult(FALSE, FALSE, "Prescription is over 2 years old", <<>>)

\* what validate_date_logic returns for a prescription over two years old
RxExpired == RuleResult(FALSE, TRUE, "Prescription is over 2 years old", <<>>)

\* now is the ordinal of the day of datetime.now(); (now - date).days is the
\* difference of the ordinals, the time of day being dropped by .days
validate_date_logic(rule_config, field_dict, now) ==
    LET rule == rule_config.rule
        passed == RuleResult(TRUE, FALSE, "Date logic validation passed", <<>>)
        caught == RuleResult(FALSE, FALSE, "Date logic validation error", <<>>)
    IN  IF rule = "patient_dob should result in reasonable age (0-120 years)"
        THEN LET patient_dob == DictGet(field_dict, <<"p", "a", "t", "i", "e", "n", "t", "_", "d", "o", "b">>) IN
             IF ~Truthy(patient_dob) THEN passed
             ELSE IF patient_dob.t # "str" THEN caught
             ELSE Bind(Strptime(patient_dob.s), LAMBDA dob :
                      IF ~dob.ok THEN caught
                      ELSE IF ~(0 <= now - dob.ord
                                /\ (now - dob.ord) * 100 <= MAX_AGE_YEARS * 36525)
                      THEN RuleResult(FALSE, FALSE, "Unrealistic patient age", <<>>)
                      ELSE passed)
        ELSE IF rule = "prescription_date should be within last 2 years"
        THEN LET prescription_date == DictGet(field_dict, <<"p", "r", "e", "s", "c", "r", "i", "p", "t", "i", "o", "n", "_", "d", "a", "t", "e">>) IN
             IF ~Truthy(prescription_date) THEN passed
             ELSE IF prescription_date.t # "str" THEN caught
             ELSE Bind(Strptime(prescription_date.s), LAMBDA presc_date :
                      IF ~presc_date.ok THEN caught
                      ELSE IF now - presc_date.ord > MAX_RX_DAYS
                      THEN RxExpired
                      ELSE passed)
        ELSE passed

\* a check that goes over the fields that were extracted, not the listed ones
validate_not_empty_extracted(rule_config, field_dict) ==
    LET fs == rule_config.fields
        empty(i) == /\ fs[i] \in DOMAIN field_dict
                    /\ LET value == DictGet(field_dict, fs[i])
                       IN  ~Truthy(value) \/ (value.t = "str" /\ Strip(value.s) = <<>>)
        k == FirstIndex(Len(fs), empty)
    IN  IF k # 0 THEN RuleResult(FALSE, FALSE, "Required field is empty or missing", fs[k])
        ELSE RuleResult(TRUE, FALSE, "Required fields validation passed", <<>>)

validate_not_empty(rule_config, field_dict) ==
    LET fs == rule_config.fields
        empty(i) == LET value == DictGet(field_dict, fs[i])
                    IN  ~Truthy(value) \/ (value.t = "str" /\ Strip(value.s) = <<>>)
        k == FirstIndex(Len(fs), empty)
    IN  IF k # 0 THEN RuleResult(FALSE, FALSE, "Required field is empty or missing", fs[k])
        ELSE RuleResult(TRUE, FALSE, "Required fields validation passed", <<>>)

apply_validation_rule(rule_config, field_dict, now) ==
    LET validation_type == IF rule_config.validation = "" THEN "pattern"
                           ELSE rule_config.validation
    IN  IF validation_type = "pattern" \/ rule_config.pattern # ""
        THEN validate_pattern(rule_config, field_dict)
        ELSE IF validation_type = "numeric_positive"
        THEN validate_numeric_positive(rule_config, field_dict)
        ELSE IF validation_type = "numeric_range"
        THEN validate_numeric_range(rule_config, field_dict)
        ELSE IF validation_type = "cross_field"
        THEN validate_cross_field(rule_config, field_dict)
        ELSE IF validation_type = "date_logic"
        THEN validate_date_logic(rule_config, field_dict, now)
        ELSE IF validation_type = "not_empty"
        THEN validate_not_empty(rule_config, field_dict)
        ELSE RuleResult(FALSE, FALSE, "Unknown validation type", <<>>)

\* confidence below which a field counts as low-confidence, 0.6
LOW_CONFIDENCE == 6000

\* a summary that counts a confidence of exactly 0.6 as low
generate_validation_notes_inclusive(validation_results, fields) ==
    LET failed_count == Len(validation_results.failed_rules)
        low == Cardinality({i \in 1..Len(fields) : GetConfidence(fields[i], 0) <= LOW_CONFIDENCE})
        warns == Len(validation_results.warnings)
    IN  (IF failed_count > 0
         THEN <<[n |-> failed_count, text |-> "validation rules failed"]>> ELSE <<>>)
        \o (IF low > 0 THEN <<[n |-> low, text |-> "low-confidence fields"]>> ELSE <<>>)
        \o (IF warns > 0 THEN <<[n |-> warns, text |-> "warnings"]>> ELSE <<>>)

\* The summary: <<>> stands for "All validations passed successfully", else
\* the parts that "; ".join puts together, each [n, text].
generate_validation_notes(validation_results, fields) ==
    LET failed_count == Len(validation_results.failed_rules)
        low == Cardinality({i \in 1..Len(fields) : GetConfidence(fields[i], 0) < LOW_CONFIDENCE})
        warns == Len(validation_results.warnings)
    IN  (IF failed_count > 0
         THEN <<[n |-> failed_count, text |-> "validation rules failed"]>> ELSE <<>>)
        \o (IF low > 0 THEN <<[n |-> low, text |-> "low-confidence fields"]>> ELSE <<>>)
        \o (IF warns > 0 THEN <<[n |-> warns, text |-> "warnings"]>> ELSE <<>>)

\* a loop body that books a rule that raised as an ordinary failure
ApplyOneUnguarded(results, rule_config, field_dict, now) ==
    Bind(apply_validation_rule(rule_config, field_dict, now), LAMBDA result :
        IF result.raised = "" /\ result.passed
        THEN [results EXCEPT !.passed_rules = Append(@, rule_config.name)]
        ELSE [results EXCEPT
                !.failed_rules = Append(@, rule_config.name),
                !.warnings = IF result.warning
                             THEN Append(@, [text |-> result.message.text,
                                             rule |-> rule_config.name])
                             ELSE @])

\* The body of the loop of validate_extraction for one rule
ApplyOne(results, rule_config, field_dict, now) ==
    Bind(apply_validation_rule(rule_config, field_dict, now), LAMBDA result :
        IF result.raised # ""
        THEN [results EXCEPT
                !.failed_rules = Append(@, rule_config.name \o "_error"),
                !.warnings = Append(@, [text |-> "Validation error in",
                                        rule |-> rule_config.name])]
        ELSE IF result.passed
        THEN [results EXCEPT !.passed_rules = Append(@, rule_config.name)]
        ELSE [results EXCEPT
                !.failed_rules = Append(@, rule_config.name),
                !.warnings = IF result.warning
                             THEN Append(@, [text |-> result.message.text,
                                             rule |-> rule_config.name])
                             ELSE @])

\* a loop that ends at the first rule that does not pass
RECURSIVE ApplyRulesUntilFailure(_, _, _, _, _)
ApplyRulesUntilFailure(results, rules, k, field_dict, now) ==
    IF k > Len(rules) \/ results.failed_rules # <<>> THEN results
    ELSE ApplyRulesUntilFailure(ApplyOne(results, rules[k], field_dict, now),
                                rules, k + 1, field_dict, now)

RECURSIVE ApplyRules(_, _, _, _, _)
ApplyRules(results, rules, k, field_dict, now) ==
    IF k > Len(rules) THEN results
    ELSE ApplyRules(ApplyOne(results, rules[k], field_dict, now), rules, k + 1, field_dict, now)

\* a validator that does not count a rule that only warned as failed
validate_extraction_lenient(extraction_result, now) ==
    Bind(IF extraction_result.doc_type = "" THEN "invoice" ELSE extraction_result.doc_type,
         LAMBDA doc_type :
    Bind(IF doc_type \in DOMAIN validation_rules THEN validation_rules[doc_type]
         ELSE validation_rules["invoice"], LAMBDA rules :
    Bind(ApplyRules([passed_rules |-> <<>>, failed_rules |-> <<>>, warnings |-> <<>>],
                    rules, 1, FieldDict(extraction_result.fields), now),
         LAMBDA validation_results :
        [passed_rules |-> validation_results.passed_rules,
         failed_rules |-> SelectSeq(validation_results.failed_rules, LAMBDA r :
                             \A w \in 1..Len(validation_results.warnings) :
                                 validation_results.warnings[w].rule # r),
         warnings |-> validation_results.warnings,
         notes |-> generate_validation_notes(
                     [validation_results EXCEPT !.failed_rules =
                         SelectSeq(@, LAMBDA r :
                             \A w \in 1..Len(validation_results.warnings) :
                                 validation_results.warnings[w].rule # r)],
                     extraction_result.fields)])))

\* extraction_result is [doc_type, fields]; doc_type is "" when the dict has
\* no 'doc_type' key.
validate_extraction(extraction_result, now) ==
    Bind(IF extraction_result.doc_type = "" THEN "invoice" ELSE extraction_result.doc_type,
         LAMBDA doc_type :
    Bind(IF doc_type \in DOMAIN validation_rules THEN validation_rules[doc_type]
         ELSE validation_rules["invoice"], LAMBDA rules :
    Bind(ApplyRules([passed_rules |-> <<>>, failed_rules |-> <<>>, warnings |-> <<>>],
                    rules, 1, FieldDict(extraction_result.fields), now),
         LAMBDA validation_results :
        [passed_rules |-> validation_results.passed_rules,
         failed_rules |-> validation_results.failed_rules,
         warnings |-> validation_results.warnings,
         notes |-> generate_validation_notes(validation_results, extraction_result.fields)])))

(***************************************************************************)
(* agents/extraction_agent.py: post-processing of the fields of the LLM    *)
(***************************************************************************)
\* Confidences are fixed-point: CONF_ONE stands for 1.0
CONF_ONE == 10000

\* The field dicts of the pipeline.  breakdown is <<>> while the dict has no
\* 'confidence_breakdown' key, else <<b>>.
Field(name, value, confidence, source) ==
    [name |-> name, value |-> value, confidence |-> confidence, rated |-> TRUE,
     source |-> source, breakdown |-> <<>>]

\* the greedy order in which two \d{1,2} groups take their widths
GREEDY == << <<2, 2>>, <<2, 1>>, <<1, 2>>, <<1, 1>> >>

AllDigits(s, i, w) == i + w - 1 <= Len(s) /\ \A j \in i..(i + w - 1) : s[j] \in DigitSet

\* the three digit groups of widths w at position p, sep between them
GroupsAt(s, p, w, sep) ==
    /\ AllDigits(s, p, w[1])
    /\ p + w[1] <= Len(s) /\ s[p + w[1]] = sep
    /\ AllDigits(s, p + w[1] + 1, w[2])
    /\ p + w[1] + w[2] + 1 <= Len(s) /\ s[p + w[1] + w[2] + 1] = sep
    /\ AllDigits(s, p + w[1] + w[2] + 2, w[3])

\* re.search of one of date_patterns: year_first for (\d{4})S(\d{1,2})S(\d{1,2}),
\* else (\d{1,2})S(\d{1,2})S(\d{4}); the groups of the leftmost match
SearchDate(s, year_first, sep) ==
    LET widths(k) == IF year_first THEN <<4, GREEDY[k][1], GREEDY[k][2]>>
                     ELSE <<GREEDY[k][1], GREEDY[k][2], 4>>
        hit(p, k) == GroupsAt(s, p, widths(k), sep)
    IN  Bind({p \in 1..Len(s) : \E k \in 1..4 : hit(p, k)}, LAMBDA starts :
            IF starts = {} THEN [found |-> FALSE, groups |-> <<>>]
            ELSE Bind(CHOOSE q \in starts : \A r \in starts : q <= r, LAMBDA p :
                 Bind(widths(CHOOSE a \in 1..4 : hit(p, a) /\ \A b \in 1..(a - 1) : ~hit(p, b)),
                      LAMBDA w :
                     [found |-> TRUE,
                      groups |-> << SubSeq(s, p, p + w[1] - 1),
                                    SubSeq(s, p + w[1] + 1, p + w[1] + w[2]),
                                    SubSeq(s, p + w[1] + w[2] + 2,
                                           p + w[1] + w[2] + w[3] + 1) >>])))

\* the body of the loop of normalize_date for one pattern: <<>> for no result
DateFrom(m, year_first) ==
    IF ~m.found THEN <<>>
    ELSE Bind(IntOf(IF year_first THEN m.groups[1] ELSE m.groups[3]), LAMBDA year :
         Bind(IntOf(IF year_first THEN m.groups[2] ELSE m.groups[1]), LAMBDA month :
         Bind(IntOf(IF year_first THEN m.groups[3] ELSE m.groups[2]), LAMBDA day :
             IF 1 <= month /\ month <= 12 /\ 1 <= day /\ day <= 31
                /\ 1900 <= year /\ year <= 2100
             THEN Pad(DigitsOf(year), 4) \o <<"-">> \o Pad(DigitsOf(month), 2)
                  \o <<"-">> \o Pad(DigitsOf(day), 2)
             ELSE <<>>)))

\* date_patterns of normalize_date: the first group is the year, the separator
date_patterns ==
    << [year_first |-> TRUE, sep |-> "-"], [year_first |-> FALSE, sep |-> "/"],
       [year_first |-> FALSE, sep |-> "-"], [year_first |-> FALSE, sep |-> "."] >>

\* <<>> stands for None
normalize_date(date_str) ==
    Bind([k \in 1..Len(date_patterns) |->
             DateFrom(SearchDate(date_str, date_patterns[k].year_first, date_patterns[k].sep),
                      date_patterns[k].year_first)], LAMBDA found :
    Bind(FirstIndex(Len(found), LAMBDA k : found[k] # <<>>), LAMBDA k :
        IF k = 0 THEN <<>> ELSE found[k]))

\* [ok, n]: the float in hundredths, ok FALSE for None
normalize_amount(amount_str) ==
    IF amount_str = <<>> THEN [ok |-> FALSE, n |-> 0]
    ELSE Bind(Remove(amount_str, {"$", ","} \cup SpaceSet), LAMBDA cleaned :
             IF Len(cleaned) >= 1 /\ cleaned[1] = "(" /\ cleaned[Len(cleaned)] = ")"
             THEN ParseFloat(<<"-">> \o SubSeq(cleaned, 2, Len(cleaned) - 1))
             ELSE ParseFloat(cleaned))

normalize_phone(phone_str) ==
    LET fmt(d) == <<"(">> \o SubSeq(d, 1, 3) \o <<")", " ">> \o SubSeq(d, 4, 6)
                  \o <<"-">> \o SubSeq(d, 7, 10)
    IN  Bind(Filter(phone_str, DigitSet), LAMBDA digits :
            IF Len(digits) = 10 THEN fmt(digits)
            ELSE IF Len(digits) = 11 /\ digits[1] = "1" THEN fmt(Tail(digits))
            ELSE phone_str)

AMOUNT_KEYWORDS == <<<<"a", "m", "o", "u", "n", "t">>, <<"t", "o", "t", "a", "l">>, <<"s", "u", "b", "t", "o", "t", "a", "l">>, <<"t", "a", "x">>, <<"p", "a", "i", "d">>, <<"c", "h", "a", "r", "g", "e", "s">>>>

\* field['confidence'] *= 0.7, 0.6
DATE_PENALTY == 7

AMOUNT_PENALTY == 6

apply_field_validation(field, doc_type) ==
    IF ~Truthy(field.value) THEN field
    ELSE Bind(Lower(field.name), LAMBDA field_name :
        IF Contains(field_name, <<"d", "a", "t", "e">>)
        THEN Bind(normalize_date(StrOf(field.value)), LAMBDA formatted_date :
                 IF formatted_date # <<>> THEN [field EXCEPT !.value = VStr(formatted_date)]
                 ELSE [field EXCEPT !.confidence = (@ * DATE_PENALTY) \div 10])
        ELSE IF \E k \in 1..Len(AMOUNT_KEYWORDS) : Contains(field_name, AMOUNT_KEYWORDS[k])
        THEN Bind(normalize_amount(StrOf(field.value)), LAMBDA normalized_amount :
                 IF normalized_amount.ok
                 THEN [field EXCEPT !.value = VNum(normalized_amount.n)]
                 ELSE [field EXCEPT !.confidence = (@ * AMOUNT_PENALTY) \div 10])
        ELSE IF Contains(field_name, <<"p", "h", "o", "n", "e">>)
        THEN [field EXCEPT !.value = VStr(normalize_phone(StrOf(field.value)))]
        ELSE field)

\* no clamping at all
Unclamped(x) == x

\* max(0.0, min(1.0, x))
Clamp01(x) == Max(0, Min(CONF_ONE, x))

\* post-processing that takes the confidence of the LLM as it comes
post_process_field_unclamped(raw, doc_type) ==
    apply_field_validation(
        Field(raw.name, raw.value, GetConfidence(raw, 0), raw.source), doc_type)

\* raw is a field dict as the LLM gave it
post_process_field(raw, doc_type) ==
    apply_field_validation(
        Field(raw.name, raw.value, Clamp01(GetConfidence(raw, 0)), raw.source), doc_type)

post_process_fields(fields, doc_type) ==
    [i \in 1..Len(fields) |-> post_process_field(fields[i], doc_type)]

(***************************************************************************)
(* utils/confidence_scoring.py: ConfidenceScorer                           *)
(* Scores are fixed-point in units of 1 / CONF_ONE; a product is rounded   *)
(* down to the unit.                                                       *)
(***************************************************************************)
\* self.scoring_weights, in hundredths
scoring_weights ==
    [text_clarity |-> 30, context_strength |-> 25, pattern_match |-> 25, consistency |-> 20]

\* self.pattern_confidence
pattern_confidence ==
    [date |-> 9000, amount |-> 8500, phone |-> 8000, email |-> 9000,
     zip_code |-> 8500, id_number |-> 7500]

\* x * (num / den)
Scale(x, num, den) == (x * num) \div den

\* s without the final newline that $ lets through
BeforeDollar(s) ==
    IF s # <<>> /\ s[Len(s)] = "\n" THEN SubSeq(s, 1, Len(s) - 1) ELSE s

FUZZY_THRESHOLD == 80

\* a fuzzy match on the distinct characters of the value
fuzzy_text_match_distinct(field_value, source_text) ==
    IF field_value = <<>> \/ source_text = <<>> THEN FALSE
    ELSE Bind(Range(Filter(Lower(field_value), WordSet)), LAMBDA field_clean :
         Bind(Range(Lower(source_text)), LAMBDA source_clean :
             field_clean # {}
               /\ Cardinality(field_clean \cap source_clean) * 100
                     >= FUZZY_THRESHOLD * Cardinality(field_clean)))

fuzzy_text_match(field_value, source_text) ==
    IF field_value = <<>> \/ source_text = <<>> THEN FALSE
    ELSE Bind(Filter(Lower(field_value), WordSet), LAMBDA field_clean :
         Bind(Range(Lower(source_text)), LAMBDA source_clean :
         Bind(Cardinality({i \in 1..Len(field_clean) : field_clean[i] \in source_clean}),
              LAMBDA matching_chars :
             field_clean # <<>>
               /\ matching_chars * 100 >= FUZZY_THRESHOLD * Len(field_clean))))

\* window: int = 50
WINDOW == 50

find_keyword_near_value(keyword, field_value, source_text) ==
    IF keyword = <<>> \/ field_value = <<>> \/ source_text = <<>> THEN FALSE
    ELSE Bind(Lower(source_text), LAMBDA source_lower :
         Bind(Lower(keyword), LAMBDA keyword_lower :
         Bind(Lower(field_value), LAMBDA value_lower :
             \E pos \in 0..(Len(source_lower) - Len(value_lower)) :
                /\ OccursAt(source_lower, value_lower, pos + 1)
                /\ \E q \in Max(0, pos - WINDOW)..
                            (Min(Len(source_lower), pos + Len(value_lower) + WINDOW)
                               - Len(keyword_lower)) :
                       OccursAt(source_lower, keyword_lower, q + 1))))

\* re.search(r'\d+[A-Za-z]+\d+', s)
HasEmbeddedLetters(s) ==
    \E i \in 1..Len(s) : \E j \in (i + 1)..(Len(s) - 1) :
        /\ s[i] \in DigitSet
        /\ \A k \in (i + 1)..j : s[k] \in AlphaSet
        /\ s[j + 1] \in DigitSet

\* a text clarity that takes 0.7 for every pattern, the embedded letters included
score_text_clarity_uniform(field_value, source_text) ==
    IF field_value = <<>> THEN 0
    ELSE LET \* clarity_score *= num / 10 when hit
             Times(c, hit, num) == IF hit THEN Scale(c, num, 10) ELSE c
         IN
         Bind(Times(CONF_ONE, HasRun(field_value, {"|"}, 2), 7), LAMBDA c1 :
         Bind(Times(c1, HasRun(field_value, {"0", "O"}, 3), 7), LAMBDA c2 :
         Bind(Times(c2, HasRun(field_value, {"I", "l", "1"}, 3), 7), LAMBDA c3 :
         Bind(Times(c3, HasRun(field_value, {"@", "#", "$", "%", "^", "&", "*"}, 2), 7),
              LAMBDA c4 :
         Bind(Times(c4, HasRun(field_value, SpaceSet, 3), 7), LAMBDA c5 :
         Bind(Len(Strip(field_value)), LAMBDA value_length :
         Bind(IF value_length < 2 THEN Scale(c5, 5, 10)
              ELSE IF value_length > 200 THEN Scale(c5, 8, 10) ELSE c5, LAMBDA c6 :
         Bind(Times(c6, HasEmbeddedLetters(field_value)
                          /\ ~Contains(Lower(field_value), <<"a", "d", "d", "r", "e", "s", "s">>), 7), LAMBDA c7 :
             Min(CONF_ONE,
                 IF Contains(Lower(source_text), Lower(field_value)) THEN Scale(c7, 12, 10)
                 ELSE IF fuzzy_text_match(field_value, source_text) THEN Scale(c7, 11, 10)
                 ELSE Scale(c7, 7, 10))))))))))

\* The values that reach the sub-scores are str: re.search raises TypeError
\* on any other truthy value before a sub-score is computed.
score_text_clarity(field_value, source_text) ==
    IF field_value = <<>> THEN 0
    ELSE LET \* clarity_score *= num / 10 when hit
             Times(c, hit, num) == IF hit THEN Scale(c, num, 10) ELSE c
         IN
         Bind(Times(CONF_ONE, HasRun(field_value, {"|"}, 2), 7), LAMBDA c1 :
         Bind(Times(c1, HasRun(field_value, {"0", "O"}, 3), 7), LAMBDA c2 :
         Bind(Times(c2, HasRun(field_value, {"I", "l", "1"}, 3), 7), LAMBDA c3 :
         Bind(Times(c3, HasRun(field_value, {"@", "#", "$", "%", "^", "&", "*"}, 2), 7),
              LAMBDA c4 :
         Bind(Times(c4, HasRun(field_value, SpaceSet, 3), 7), LAMBDA c5 :
         Bind(Len(Strip(field_value)), LAMBDA value_length :
         Bind(IF value_length < 2 THEN Scale(c5, 5, 10)
              ELSE IF value_length > 200 THEN Scale(c5, 8, 10) ELSE c5, LAMBDA c6 :
         Bind(Times(c6, HasEmbeddedLetters(field_value)
                          /\ ~Contains(Lower(field_value), <<"a", "d", "d", "r", "e", "s", "s">>), 8), LAMBDA c7 :
             Min(CONF_ONE,
                 IF Contains(Lower(source_text), Lower(field_value)) THEN Scale(c7, 12, 10)
                 ELSE IF fuzzy_text_match(field_value, source_text) THEN Scale(c7, 11, 10)
                 ELSE Scale(c7, 7, 10))))))))))

\* context_keywords of score_context_strength
context_keywords ==
    [invoice |->
        (<<"i", "n", "v", "o", "i", "c", "e", "_", "n", "u", "m", "b", "e", "r">> :> <<<<"i", "n", "v", "o", "i", "c", "e">>, <<"i", "n", "v">>, <<"#">>, <<"n", "u", "m", "b", "e", "r">>>>) @@
        (<<"t", "o", "t", "a", "l", "_", "a", "m", "o", "u", "n", "t">> :> <<<<"t", "o", "t", "a", "l">>, <<"a", "m", "o", "u", "n", "t">>, <<"d", "u", "e">>, <<"$">>, <<"b", "a", "l", "a", "n", "c", "e">>>>) @@
        (<<"v", "e", "n", "d", "o", "r", "_", "n", "a", "m", "e">> :> <<<<"f", "r", "o", "m", ":">>, <<"v", "e", "n", "d", "o", "r">>, <<"c", "o", "m", "p", "a", "n", "y">>, <<"b", "i", "l", "l", " ", "t", "o">>>>) @@
        (<<"i", "n", "v", "o", "i", "c", "e", "_", "d", "a", "t", "e">> :> <<<<"d", "a", "t", "e">>, <<"i", "s", "s", "u", "e", "d">>, <<"i", "n", "v", "o", "i", "c", "e", " ", "d", "a", "t", "e">>>>) @@
        (<<"d", "u", "e", "_", "d", "a", "t", "e">> :> <<<<"d", "u", "e">>, <<"p", "a", "y", "m", "e", "n", "t", " ", "d", "u", "e">>, <<"d", "u", "e", " ", "d", "a", "t", "e">>>>),
     medical_bill |->
        (<<"p", "a", "t", "i", "e", "n", "t", "_", "n", "a", "m", "e">> :> <<<<"p", "a", "t", "i", "e", "n", "t">>, <<"n", "a", "m", "e">>, <<"m", "e", "m", "b", "e", "r">>>>) @@
        (<<"p", "r", "o", "v", "i", "d", "e", "r", "_", "n", "a", "m", "e">> :> <<<<"p", "r", "o", "v", "i", "d", "e", "r">>, <<"h", "o", "s", "p", "i", "t", "a", "l">>, <<"c", "l", "i", "n", "i", "c">>, <<"d", "o", "c", "t", "o", "r">>>>) @@
        (<<"t", "o", "t", "a", "l", "_", "c", "h", "a", "r", "g", "e", "s">> :> <<<<"t", "o", "t", "a", "l">>, <<"c", "h", "a", "r", "g", "e", "s">>, <<"a", "m", "o", "u", "n", "t">>, <<"b", "a", "l", "a", "n", "c", "e">>>>) @@
        (<<"s", "e", "r", "v", "i", "c", "e", "_", "d", "a", "t", "e">> :> <<<<"s", "e", "r", "v", "i", "c", "e">>, <<"d", "a", "t", "e">>, <<"v", "i", "s", "i", "t", " ", "d", "a", "t", "e">>>>) @@
        (<<"i", "n", "s", "u", "r", "a", "n", "c", "e", "_", "c", "o", "m", "p", "a", "n", "y">> :> <<<<"i", "n", "s", "u", "r", "a", "n", "c", "e">>, <<"p", "l", "a", "n">>, <<"c", "o", "v", "e", "r", "a", "g", "e">>>>),
     prescription |->
        (<<"p", "a", "t", "i", "e", "n", "t", "_", "n", "a", "m", "e">> :> <<<<"p", "a", "t", "i", "e", "n", "t">>, <<"n", "a", "m", "e">>>>) @@
        (<<"d", "o", "c", "t", "o", "r", "_", "n", "a", "m", "e">> :> <<<<"d", "o", "c", "t", "o", "r">>, <<"p", "h", "y", "s", "i", "c", "i", "a", "n">>, <<"p", "r", "e", "s", "c", "r", "i", "b", "e", "r">>, <<"m", "d">>>>) @@
        (<<"p", "h", "a", "r", "m", "a", "c", "y", "_", "n", "a", "m", "e">> :> <<<<"p", "h", "a", "r", "m", "a", "c", "y">>, <<"r", "x">>, <<"d", "i", "s", "p", "e", "n", "s", "e", "d", " ", "b", "y">>>>) @@
        (<<"m", "e", "d", "i", "c", "a", "t", "i", "o", "n", "s">> :> <<<<"m", "e", "d", "i", "c", "a", "t", "i", "o", "n">>, <<"d", "r", "u", "g">>, <<"r", "x">>, <<"p", "r", "e", "s", "c", "r", "i", "b", "e", "d">>>>) @@
        (<<"p", "r", "e", "s", "c", "r", "i", "p", "t", "i", "o", "n", "_", "d", "a", "t", "e">> :> <<<<"d", "a", "t", "e">>, <<"p", "r", "e", "s", "c", "r", "i", "b", "e", "d">>, <<"r", "x", " ", "d", "a", "t", "e">>>>)]

\* str.split(): the maximal runs of non-blank characters, as [from, to]
Words(s) ==
    {w \in (1..Len(s)) \X (1..Len(s)) :
        /\ w[1] <= w[2]
        /\ \A k \in w[1]..w[2] : s[k] \notin SpaceSet
        /\ (w[1] = 1 \/ s[w[1] - 1] \in SpaceSet)
        /\ (w[2] = Len(s) \/ s[w[2] + 1] \in SpaceSet)}

AnyKeyword(name, keywords) == \E k \in 1..Len(keywords) : Contains(name, keywords[k])

\* the bonus of validate_field_context
CONTEXT_BONUS == 1000

\* 0.01 <= amount <= 1000000, in hundredths
REASONABLE_MAX == 100000000

validate_field_context(field_name, field_value) ==
    Bind(Lower(field_name), LAMBDA field_name_lower :
        IF Contains(field_name_lower, <<"n", "a", "m", "e">>) /\ ~Contains(field_name_lower, <<"f", "i", "l", "e">>)
        THEN Bind(Words(field_value), LAMBDA words :
                 IF /\ 1 <= Cardinality(words) /\ Cardinality(words) <= 5
                    /\ \A w \in words :
                          \/ \A k \in w[1]..w[2] : field_value[k] \in AlphaSet
                          \/ \E k \in w[1]..w[2] : field_value[k] = "-"
                 THEN CONTEXT_BONUS ELSE 0)
        ELSE IF AnyKeyword(field_name_lower, <<<<"a", "m", "o", "u", "n", "t">>, <<"t", "o", "t", "a", "l">>, <<"c", "h", "a", "r", "g", "e">>, <<"p", "a", "i", "d">>>>)
        THEN Bind(ParseFloat(Filter(field_value, DigitSet \cup {"."})), LAMBDA amount :
                 IF amount.ok /\ 1 <= amount.n /\ amount.n <= REASONABLE_MAX
                 THEN CONTEXT_BONUS ELSE 0)
        ELSE IF AnyKeyword(field_name_lower, <<<<"i", "d">>, <<"n", "u", "m", "b", "e", "r">>>>)
        THEN IF /\ 3 <= Len(field_value) /\ Len(field_value) <= 50
                /\ \E k \in 1..Len(field_value) : field_value[k] \in AlphaSet \cup DigitSet
             THEN CONTEXT_BONUS ELSE 0
        ELSE 0)

\* the base score and the step per keyword of score_context_strength
CONTEXT_BASE == 6000

KEYWORD_STEP == 1000

score_context_strength(field_name, field_value, source_text, doc_type) ==
    IF field_value = <<>> THEN 0
    ELSE Bind(IF doc_type \in DOMAIN context_keywords THEN context_keywords[doc_type]
              ELSE <<>>, LAMBDA by_name :
         Bind(IF field_name \in DOMAIN by_name THEN by_name[field_name] ELSE <<>>,
              LAMBDA field_keywords :
         Bind(Cardinality({k \in 1..Len(field_keywords) :
                 find_keyword_near_value(field_keywords[k], field_value, source_text)}),
              LAMBDA hits :
             Min(CONF_ONE, CONTEXT_BASE + (KEYWORD_STEP * hits)
                           + validate_field_context(field_name, field_value)))))

\* re.match of ^\d{1,2}S\d{1,2}S\d{4}$
MatchShortDate(s, sep) ==
    LET b == BeforeDollar(s)
    IN  \E k \in 1..4 :
           LET w == <<GREEDY[k][1], GREEDY[k][2], 4>>
           IN  Len(b) = w[1] + w[2] + 6 /\ GroupsAt(b, 1, w, sep)

\* \d{1,3}(,\d{3})*
MatchThousands(b) ==
    \E h \in 1..3 :
       /\ h <= Len(b) /\ AllDigits(b, 1, h)
       /\ (Len(b) - h) % 4 = 0
       /\ \A g \in 0..(((Len(b) - h) \div 4) - 1) :
             b[h + (4 * g) + 1] = "," /\ AllDigits(b, h + (4 * g) + 2, 3)

\* re.match of ^\$?\d{1,3}(,\d{3})*(\.\d{2})?$
MatchCurrency(s) ==
    Bind(BeforeDollar(s), LAMBDA b :
    Bind(IF b # <<>> /\ b[1] = "$" THEN Tail(b) ELSE b, LAMBDA a :
        \/ MatchThousands(a)
        \/ Len(a) >= 4 /\ a[Len(a) - 2] = "." /\ AllDigits(a, Len(a) - 1, 2)
                       /\ MatchThousands(SubSeq(a, 1, Len(a) - 3))))

\* re.match of ^\d+\.\d{2}$ and of ^\d+$
MatchDecimal(s) ==
    Bind(BeforeDollar(s), LAMBDA b :
        /\ Len(b) >= 4 /\ b[Len(b) - 2] = "."
        /\ AllDigits(b, Len(b) - 1, 2) /\ AllDigits(b, 1, Len(b) - 3))

MatchInteger(s) == BeforeDollar(s) # <<>> /\ AllIn(BeforeDollar(s), DigitSet)

\* re.match of ^\d{3}-\d{3}-\d{4}$
MatchDashedPhone(s) ==
    LET b == BeforeDollar(s)
    IN  Len(b) = 12 /\ GroupsAt(b, 1, <<3, 3, 4>>, "-")

\* re.match of ^[a-zA-Z0-9._%+-]+@[a-zA-Z0-9.-]+\.[a-zA-Z]{2,}$
MatchEmail(s) ==
    LET local == AlphaSet \cup DigitSet \cup {".", "_", "%", "+", "-"}
        host == AlphaSet \cup DigitSet \cup {".", "-"}
    IN  Bind(BeforeDollar(s), LAMBDA b :
            \E at \in 2..Len(b) : \E dot \in (at + 2)..(Len(b) - 2) :
               /\ b[at] = "@" /\ b[dot] = "."
               /\ \A k \in 1..(at - 1) : b[k] \in local
               /\ \A k \in (at + 1)..(dot - 1) : b[k] \in host
               /\ \A k \in (dot + 1)..Len(b) : b[k] \in AlphaSet)

PATTERN_BASE == 5000

NAME_SCORE == 8000

score_pattern_match(field_name, field_value) ==
    IF field_value = <<>> THEN 0
    ELSE Bind(Lower(field_name), LAMBDA field_name_lower :
         Bind( IF Contains(field_name_lower, <<"d", "a", "t", "e">>)
               THEN IF \/ MatchDatePattern(field_value)
                       \/ MatchShortDate(field_value, "/")
                       \/ MatchShortDate(field_value, "-")
                    THEN pattern_confidence.date ELSE PATTERN_BASE
               ELSE IF AnyKeyword(field_name_lower,
                         <<<<"a", "m", "o", "u", "n", "t">>, <<"t", "o", "t", "a", "l">>, <<"s", "u", "b", "t", "o", "t", "a", "l">>, <<"t", "a", "x">>, <<"c", "h", "a", "r", "g", "e">>, <<"p", "a", "i", "d">>>>)
               THEN IF \/ MatchDecimal(field_value)
                       \/ MatchCurrency(field_value)
                       \/ MatchInteger(field_value)
                    THEN pattern_confidence.amount ELSE PATTERN_BASE
               ELSE IF Contains(field_name_lower, <<"p", "h", "o", "n", "e">>)
               THEN IF MatchPhonePattern(field_value) \/ MatchDashedPhone(field_value)
                    THEN pattern_confidence.phone ELSE PATTERN_BASE
               ELSE IF Contains(field_name_lower, <<"e", "m", "a", "i", "l">>)
               THEN IF MatchEmail(field_value) THEN pattern_confidence.email
                    ELSE PATTERN_BASE
               ELSE IF AnyKeyword(field_name_lower,
                         <<<<"i", "d">>, <<"n", "u", "m", "b", "e", "r">>, <<"p", "o", "l", "i", "c", "y">>, <<"m", "e", "m", "b", "e", "r">>>>)
               THEN IF /\ \E k \in 1..Len(field_value) : field_value[k] \in DigitSet
                       /\ Remove(field_value, {" "}) # <<>>
                       /\ AllIn(Remove(field_value, {" "}), AlphaSet \cup DigitSet)
                    THEN pattern_confidence.id_number ELSE PATTERN_BASE
               ELSE IF Contains(field_name_lower, <<"n", "a", "m", "e">>)
                       /\ ~Contains(field_name_lower, <<"f", "i", "l", "e">>)
               THEN IF /\ \A k \in 1..Len(field_value) : field_value[k] \notin DigitSet
                       /\ Cardinality({k \in 1..Len(field_value) :
                             field_value[k] \notin AlphaSet \cup SpaceSet \cup {"-", "."}}) < 3
                    THEN NAME_SCORE ELSE PATTERN_BASE
               ELSE PATTERN_BASE,
             LAMBDA pattern_score : Min(CONF_ONE, pattern_score)))

\* [some, inf, f]: some FALSE stands for None; inf for float('inf'), which
\* float() gives for the decimal string of an int beyond the float range
safe_float_convert(value) ==
    IF value.t = "null" THEN [some |-> FALSE, inf |-> FALSE, f |-> FZero]
    ELSE IF value.t = "big" THEN [some |-> TRUE, inf |-> TRUE, f |-> FZero]
    ELSE Bind(ParseFloat(Remove(StrOf(value), {"$", ","})), LAMBDA p :
             IF p.ok THEN [some |-> TRUE, inf |-> FALSE, f |-> FromCents(p.n)]
             ELSE [some |-> FALSE, inf |-> FALSE, f |-> FZero])

\* calculate_similarity(str1, str2) > 0.8
SIMILARITY_THRESHOLD == 80

calculate_similarity_above(str1, str2) ==
    IF str1 = <<>> \/ str2 = <<>> THEN FALSE
    ELSE Bind(Strip(Lower(str1)), LAMBDA str1_clean :
         Bind(Strip(Lower(str2)), LAMBDA str2_clean :
         Bind(Range(str1_clean) \cap Range(str2_clean), LAMBDA common_chars :
         Bind(Range(str1_clean) \cup Range(str2_clean), LAMBDA total_chars :
             \/ str1_clean = str2_clean
             \/ /\ total_chars # {}
                /\ Cardinality(common_chars) * 100
                     > SIMILARITY_THRESHOLD * Cardinality(total_chars)))))

CONSISTENCY_BASE == 7000

\* [raised, score]; field.value is None, or a str
score_cross_field_consistency(field, all_fields) ==
    IF ~Truthy(field.value) THEN [raised |-> "", score |-> 0] ELSE
    LET field_name == field.name
        field_value == field.value.s
        \* what the date check adds to the score
        date_delta(field_dict) ==
            IF Contains(Lower(field_name), <<"d", "a", "t", "e">>) /\ field_name = <<"d", "u", "e", "_", "d", "a", "t", "e">>
               /\ Truthy(DictGet(field_dict, <<"i", "n", "v", "o", "i", "c", "e", "_", "d", "a", "t", "e">>))
            THEN Bind(DictGet(field_dict, <<"i", "n", "v", "o", "i", "c", "e", "_", "d", "a", "t", "e">>), LAMBDA invoice_date :
                     IF invoice_date.t # "str" THEN 0
                     ELSE IF ~StrLess(field_value, invoice_date.s) THEN 1000 ELSE -2000)
            ELSE 0
        \* what the amount check adds
        total_delta(field_dict) ==
            IF Contains(Lower(field_name), <<"t", "o", "t", "a", "l">>)
            THEN Bind([k \in {<<"s", "u", "b", "t", "o", "t", "a", "l">>, <<"t", "a", "x", "_", "a", "m", "o", "u", "n", "t">>} |->
                          safe_float_convert(DictGet(field_dict, k))], LAMBDA part :
                 Bind(part[<<"s", "u", "b", "t", "o", "t", "a", "l">>], LAMBDA subtotal :
                 Bind(part[<<"t", "a", "x", "_", "a", "m", "o", "u", "n", "t">>], LAMBDA tax_amount :
                 Bind(safe_float_convert(VStr(field_value)), LAMBDA total_amount :
                     IF subtotal.some /\ tax_amount.some /\ total_amount.some
                     THEN IF /\ ~subtotal.inf /\ ~tax_amount.inf
                             /\ FLess(FAbs(FSub(FAdd(subtotal.f, tax_amount.f), total_amount.f)),
                                      TOLERANCE)
                          THEN 2000 ELSE -1000
                     ELSE 0))))
            ELSE 0
        \* what the name check adds
        name_delta(field_dict, other_names) ==
            -1000 * Cardinality({nm \in other_names :
                       /\ calculate_similarity_above(field_value, field_dict[nm].s)
                       /\ field_value # field_dict[nm].s})
    IN
    Bind(FieldDict(SelectSeq(all_fields, LAMBDA f : f.name # field_name)), LAMBDA field_dict :
    Bind({nm \in DOMAIN field_dict :
             Contains(Lower(nm), <<"n", "a", "m", "e">>) /\ Truthy(field_dict[nm])}, LAMBDA other_names :
    Bind(Contains(Lower(field_name), <<"n", "a", "m", "e">>), LAMBDA in_name :
        IF in_name /\ \E nm \in other_names : field_dict[nm].t # "str"
        THEN [raised |-> "AttributeError", score |-> 0]
        ELSE [raised |-> "",
              score |-> Clamp01(CONSISTENCY_BASE + date_delta(field_dict)
                                + total_delta(field_dict)
                                + (IF in_name THEN name_delta(field_dict, other_names)
                                   ELSE 0))])))

\* field.get('confidence', 0.5)
DEFAULT_BASE == 5000

\* calculate_single_field_confidence past its early return: the sub-scores,
\* the blend and the breakdown.  Each sub-score is 0.0 for an empty value.
ScoreValued(field, source_text, doc_type, all_fields) ==
    IF Truthy(field.value) /\ field.value.t # "str"
    THEN [raised |-> "TypeError", field |-> field]
    ELSE
    Bind(score_text_clarity(field.value.s, source_text), LAMBDA text_clarity :
    Bind(score_context_strength(field.name, field.value.s, source_text, doc_type),
         LAMBDA context_strength :
    Bind(score_pattern_match(field.name, field.value.s), LAMBDA pattern_match :
    Bind(score_cross_field_consistency(field, all_fields), LAMBDA consistency :
    Bind(((text_clarity * scoring_weights.text_clarity)
          + (context_strength * scoring_weights.context_strength)
          + (pattern_match * scoring_weights.pattern_match)
          + (consistency.score * scoring_weights.consistency)) \div 100, LAMBDA weighted :
    Bind(GetConfidence(field, DEFAULT_BASE), LAMBDA base_confidence :
    Bind(Clamp01(IF base_confidence > 0
                 THEN ((weighted * 7) + (base_confidence * 3)) \div 10
                 ELSE weighted), LAMBDA final_confidence :
        IF consistency.raised # ""
        THEN [raised |-> consistency.raised, field |-> field]
        ELSE [raised |-> "",
              field |-> [field EXCEPT
                 !.confidence = final_confidence,
                 !.rated = TRUE,
                 !.breakdown = << [text_clarity |-> text_clarity,
                                   context_strength |-> context_strength,
                                   pattern_match |-> pattern_match,
                                   consistency |-> consistency.score,
                                   base_confidence |-> base_confidence,
                                   final_confidence |-> final_confidence] >>]])))))))

\* the scoring of a field without the early return for an empty value
calculate_single_field_confidence_unskipped(field, source_text, doc_type, all_fields) ==
    ScoreValued(field, source_text, doc_type, all_fields)

\* [raised, field]: the dict after the call, raised # "" when the call left
\* it by an exception (the dict is then as it was)
calculate_single_field_confidence(field, source_text, doc_type, all_fields) ==
    IF ~Truthy(field.value)
    THEN [raised |-> "", field |-> [field EXCEPT !.confidence = 0, !.rated = TRUE]]
    ELSE ScoreValued(field, source_text, doc_type, all_fields)

\* a lookup that falls back to no critical fields at all
get_critical_fields_or_none(doc_type) ==
    LET critical_fields ==
          [invoice |-> <<<<"i", "n", "v", "o", "i", "c", "e", "_", "n", "u", "m", "b", "e", "r">>, <<"t", "o", "t", "a", "l", "_", "a", "m", "o", "u", "n", "t">>, <<"v", "e", "n", "d", "o", "r", "_", "n", "a", "m", "e">>, <<"i", "n", "v", "o", "i", "c", "e", "_", "d", "a", "t", "e">>>>,
           medical_bill |-> <<<<"p", "a", "t", "i", "e", "n", "t", "_", "n", "a", "m", "e">>, <<"p", "r", "o", "v", "i", "d", "e", "r", "_", "n", "a", "m", "e">>, <<"t", "o", "t", "a", "l", "_", "c", "h", "a", "r", "g", "e", "s">>, <<"s", "e", "r", "v", "i", "c", "e", "_", "d", "a", "t", "e">>>>,
           prescription |-> <<<<"p", "a", "t", "i", "e", "n", "t", "_", "n", "a", "m", "e">>, <<"d", "o", "c", "t", "o", "r", "_", "n", "a", "m", "e">>, <<"m", "e", "d", "i", "c", "a", "t", "i", "o", "n", "s">>, <<"p", "r", "e", "s", "c", "r", "i", "p", "t", "i", "o", "n", "_", "d", "a", "t", "e">>>>]
    IN  IF doc_type \in DOMAIN critical_fields THEN critical_fields[doc_type]
        ELSE <<>>

get_critical_fields(doc_type) ==
    LET critical_fields ==
          [invoice |-> <<<<"i", "n", "v", "o", "i", "c", "e", "_", "n", "u", "m", "b", "e", "r">>, <<"t", "o", "t", "a", "l", "_", "a", "m", "o", "u", "n", "t">>, <<"v", "e", "n", "d", "o", "r", "_", "n", "a", "m", "e">>, <<"i", "n", "v", "o", "i", "c", "e", "_", "d", "a", "t", "e">>>>,
           medical_bill |-> <<<<"p", "a", "t", "i", "e", "n", "t", "_", "n", "a", "m", "e">>, <<"p", "r", "o", "v", "i", "d", "e", "r", "_", "n", "a", "m", "e">>, <<"t", "o", "t", "a", "l", "_", "c", "h", "a", "r", "g", "e", "s">>, <<"s", "e", "r", "v", "i", "c", "e", "_", "d", "a", "t", "e">>>>,
           prescription |-> <<<<"p", "a", "t", "i", "e", "n", "t", "_", "n", "a", "m", "e">>, <<"d", "o", "c", "t", "o", "r", "_", "n", "a", "m", "e">>, <<"m", "e", "d", "i", "c", "a", "t", "i", "o", "n", "s">>, <<"p", "r", "e", "s", "c", "r", "i", "p", "t", "i", "o", "n", "_", "d", "a", "t", "e">>>>]
    IN  IF doc_type \in DOMAIN critical_fields THEN critical_fields[doc_type]
        ELSE critical_fields["invoice"]

\* the integer square root, by bisection on lo..hi
RECURSIVE IsqrtIn(_, _, _)
IsqrtIn(x, lo, hi) ==
    IF lo >= hi THEN lo
    ELSE LET mid == (lo + hi + 1) \div 2
         IN  IF mid * mid <= x THEN IsqrtIn(x, mid, hi) ELSE IsqrtIn(x, lo, mid - 1)

Isqrt(x) == IsqrtIn(x, 0, CONF_ONE)

RECURSIVE SumSeq(_)
SumSeq(s) == IF s = <<>> THEN 0 ELSE Head(s) + SumSeq(Tail(s))

\* the terms of calculate_overall_confidence
MAX_VARIANCE_PENALTY == 2000

CRITICAL_THRESHOLD == 8000

CRITICAL_BONUS == 500

MISSING_PENALTY == 1000

MAX_COUNT_FACTOR == 1000

COUNT_STEP == 100

\* an overall confidence that counts a critical field of confidence 0 as missing
calculate_overall_confidence_strict(confidence_scores, fields, doc_type) ==
    IF confidence_scores = <<>> THEN 0
    ELSE
    Bind(Len(confidence_scores), LAMBDA n :
    Bind(SumSeq(confidence_scores) \div n, LAMBDA mean_confidence :
    Bind(IF n > 1
         THEN Isqrt(SumSeq([i \in 1..n |-> (confidence_scores[i] - mean_confidence)
                                           * (confidence_scores[i] - mean_confidence)]) \div n)
         ELSE 0, LAMBDA confidence_std :
    Bind(get_critical_fields(doc_type), LAMBDA critical_fields :
    Bind([k \in 1..Len(critical_fields) |->
             FirstIndex(Len(fields), LAMBDA i : fields[i].name = critical_fields[k])],
         LAMBDA first :
        Clamp01(mean_confidence
                - Min(MAX_VARIANCE_PENALTY, confidence_std \div 2)
                + (CRITICAL_BONUS * Cardinality({k \in 1..Len(critical_fields) :
                      first[k] # 0 /\ fields[first[k]].confidence > CRITICAL_THRESHOLD}))
                - (Cardinality({k \in 1..Len(critical_fields) :
                                   first[k] = 0 \/ fields[first[k]].confidence = 0})
                     * MISSING_PENALTY)
                + Min(MAX_COUNT_FACTOR, Len(fields) * COUNT_STEP)))))))

calculate_overall_confidence(confidence_scores, fields, doc_type) ==
    IF confidence_scores = <<>> THEN 0
    ELSE
    Bind(Len(confidence_scores), LAMBDA n :
    Bind(SumSeq(confidence_scores) \div n, LAMBDA mean_confidence :
    Bind(IF n > 1
         THEN Isqrt(SumSeq([i \in 1..n |-> (confidence_scores[i] - mean_confidence)
                                           * (confidence_scores[i] - mean_confidence)]) \div n)
         ELSE 0, LAMBDA confidence_std :
    Bind(get_critical_fields(doc_type), LAMBDA critical_fields :
    Bind([k \in 1..Len(critical_fields) |->
             FirstIndex(Len(fields), LAMBDA i : fields[i].name = critical_fields[k])],
         LAMBDA first :
        Clamp01(mean_confidence
                - Min(MAX_VARIANCE_PENALTY, confidence_std \div 2)
                + (CRITICAL_BONUS * Cardinality({k \in 1..Len(critical_fields) :
                      first[k] # 0 /\ fields[first[k]].confidence > CRITICAL_THRESHOLD}))
                - (Cardinality({k \in 1..Len(critical_fields) : first[k] = 0})
                     * MISSING_PENALTY)
                + Min(MAX_COUNT_FACTOR, Len(fields) * COUNT_STEP)))))))

\* [raised, fields, overall_confidence, field_count, scored_count].  The
\* field dicts are scored in place, in order: when the scoring of a field
\* raises, the scored_count fields before it keep their new confidence and
\* no result is returned.
calculate_field_confidence(fields, source_text, doc_type) ==
    IF fields = <<>>
    THEN [raised |-> "", fields |-> <<>>, overall_confidence |-> 0, field_count |-> 0,
          scored_count |-> 0]
    ELSE
    Bind([i \in 1..Len(fields) |->
             calculate_single_field_confidence(fields[i], source_text, doc_type, fields)],
         LAMBDA r :
    Bind(FirstIndex(Len(fields), LAMBDA i : r[i].raised # ""), LAMBDA k :
    Bind([i \in 1..Len(fields) |-> IF k = 0 \/ i < k THEN r[i].field ELSE fields[i]],
         LAMBDA scored_fields :
        IF k # 0
        THEN [raised |-> r[k].raised, fields |-> scored_fields,
              overall_confidence |-> 0, field_count |-> 0, scored_count |-> k - 1]
        ELSE [raised |-> "", fields |-> scored_fields,
              overall_confidence |->
                 calculate_overall_confidence(
                     [i \in 1..Len(fields) |-> scored_fields[i].confidence],
                     scored_fields, doc_type),
              field_count |-> Len(fields), scored_count |-> Len(fields)])))

(***************************************************************************)
(* The documents of the model                                              *)
(***************************************************************************)
\* the most fields an LLM response carries, the most direct calls made on
\* the components, and max_retries of extract_structured_data
MaxFields == 2

MaxCalls == 2

\* a loop that runs over range(max_retries + 1)
max_retries_plus_one == 3 + 1

max_retries == 3

DocTypes == {"invoice", "medical_bill", "prescription"}

\* a field dict of the JSON the LLM returns
Raw(name, value, confidence) ==
    [name |-> name, value |-> value, confidence |-> confidence, rated |-> TRUE,
     source |-> "llm"]

\* a field dict without the 'confidence' key
RawUnrated(name, value) ==
    [name |-> name, value |-> value, confidence |-> 0, rated |-> FALSE, source |-> "llm"]

\* The fields an LLM response is drawn from, per kind of document.  Numbers
\* are given only under names that post-processing leaves alone or turns
\* into floats itself.
Pool ==
    [invoice |->
       << Raw(<<"i", "n", "v", "o", "i", "c", "e", "_", "n", "u", "m", "b", "e", "r">>, VStr(<<"I", "N", "V", "-", "0", "0", "1">>), 9000),
          RawUnrated(<<"i", "n", "v", "o", "i", "c", "e", "_", "n", "u", "m", "b", "e", "r">>, VStr(<<"I", "N", "V", "-", "0", "0", "2">>)),
          Raw(<<"v", "e", "n", "d", "o", "r", "_", "n", "a", "m", "e">>, VStr(<<"A", "c", "m", "e", " ", "C", "o">>), 15000),
          Raw(<<"v", "e", "n", "d", "o", "r", "_", "n", "a", "m", "e">>, VNull, 9000),
          Raw(<<"v", "e", "n", "d", "o", "r", "_", "n", "a", "m", "e">>, VStr(<<>>), 9000),
          Raw(<<"i", "n", "v", "o", "i", "c", "e", "_", "d", "a", "t", "e">>, VStr(<<"2", "0", "2", "4", "-", "0", "1", "-", "1", "5">>), 8000),
          Raw(<<"d", "u", "e", "_", "d", "a", "t", "e">>, VStr(<<"2", "0", "2", "4", "-", "0", "1", "-", "1", "5">>), 0),
          Raw(<<"d", "u", "e", "_", "d", "a", "t", "e">>, VStr(<<"0", "2", "/", "1", "0", "/", "2", "0", "2", "4">>), -5000),
          Raw(<<"d", "u", "e", "_", "d", "a", "t", "e">>, VStr(<<"s", "o", "o", "n">>), 15000),
          Raw(<<"s", "u", "b", "t", "o", "t", "a", "l">>, VStr(<<"1", "0", "0", ".", "0", "0">>), 9000),
          Raw(<<"t", "o", "t", "a", "l", "_", "a", "m", "o", "u", "n", "t">>, VStr(<<"1", "0", "0", ".", "0", "0">>), 9000),
          Raw(<<"t", "o", "t", "a", "l", "_", "a", "m", "o", "u", "n", "t">>, VStr(<<"1", "0", "0", ".", "0", "1">>), 9000),
          Raw(<<"t", "o", "t", "a", "l", "_", "a", "m", "o", "u", "n", "t">>, VStr(<<"1", "0", "0", ".", "0", "2">>), 3000),
          Raw(<<"t", "o", "t", "a", "l", "_", "a", "m", "o", "u", "n", "t">>, VStr(<<"N", "/", "A">>), 9000),
          Raw(<<"t", "o", "t", "a", "l", "_", "a", "m", "o", "u", "n", "t">>, VStr(<<"0", ".", "0", "0">>), 9000) >>,
     medical_bill |->
       << Raw(<<"p", "a", "t", "i", "e", "n", "t", "_", "n", "a", "m", "e">>, VStr(<<"J", "a", "n", "e", " ", "D", "o", "e">>), 9000),
          Raw(<<"p", "r", "o", "v", "i", "d", "e", "r", "_", "n", "a", "m", "e">>, VStr(<<"C", "i", "t", "y", " ", "C", "l", "i", "n", "i", "c">>), 15000),
          Raw(<<"p", "r", "o", "v", "i", "d", "e", "r", "_", "n", "a", "m", "e">>, VNull, 9000),
          Raw(<<"s", "e", "r", "v", "i", "c", "e", "_", "d", "a", "t", "e">>, VStr(<<"2", "0", "2", "4", "-", "0", "3", "-", "0", "5">>), 8000),
          Raw(<<"s", "e", "r", "v", "i", "c", "e", "_", "d", "a", "t", "e">>, VStr(<<>>), 9000),
          Raw(<<"p", "a", "t", "i", "e", "n", "t", "_", "d", "o", "b">>, VStr(<<"1", "9", "5", "0", "-", "0", "7", "-", "0", "4">>), 9000),
          Raw(<<"p", "a", "t", "i", "e", "n", "t", "_", "d", "o", "b">>, VStr(<<"1", "9", "0", "0", "-", "0", "1", "-", "0", "1">>), -5000),
          Raw(<<"p", "a", "t", "i", "e", "n", "t", "_", "d", "o", "b">>, VStr(<<"0", "7", "/", "0", "4", "/", "5", "0">>), 9000),
          Raw(<<"i", "n", "s", "u", "r", "a", "n", "c", "e", "_", "p", "a", "i", "d">>, VStr(<<"1", "5", "0", ".", "0", "0">>), 9000),
          Raw(<<"p", "a", "t", "i", "e", "n", "t", "_", "r", "e", "s", "p", "o", "n", "s", "i", "b", "i", "l", "i", "t", "y">>, VStr(<<"5", "0", ".", "0", "0">>), 9000),
          Raw(<<"p", "a", "t", "i", "e", "n", "t", "_", "r", "e", "s", "p", "o", "n", "s", "i", "b", "i", "l", "i", "t", "y">>, VBig, 9000),
          Raw(<<"t", "o", "t", "a", "l", "_", "c", "h", "a", "r", "g", "e", "s">>, VStr(<<"1", "5", "0", ".", "0", "1">>), 9000),
          Raw(<<"t", "o", "t", "a", "l", "_", "c", "h", "a", "r", "g", "e", "s">>, VStr(<<"2", "0", "0", ".", "0", "0">>), 3000) >>,
     prescription |->
       << Raw(<<"p", "a", "t", "i", "e", "n", "t", "_", "n", "a", "m", "e">>, VStr(<<"J", "a", "n", "e", " ", "D", "o", "e">>), 9000),
          Raw(<<"d", "o", "c", "t", "o", "r", "_", "n", "a", "m", "e">>, VStr(<<"D", "r", ".", " ", "S", "m", "i", "t", "h">>), 15000),
          Raw(<<"m", "e", "d", "i", "c", "a", "t", "i", "o", "n", "s">>, VStr(<<"A", "m", "o", "x", "i", "c", "i", "l", "l", "i", "n", " ", "5", "0", "0", "m", "g">>), 9000),
          Raw(<<"m", "e", "d", "i", "c", "a", "t", "i", "o", "n", "s">>, VNull, 9000),
          Raw(<<"p", "r", "e", "s", "c", "r", "i", "p", "t", "i", "o", "n", "_", "d", "a", "t", "e">>, VStr(<<"2", "0", "2", "4", "-", "0", "5", "-", "0", "1">>), 8000),
          Raw(<<"p", "r", "e", "s", "c", "r", "i", "p", "t", "i", "o", "n", "_", "d", "a", "t", "e">>, VStr(<<"2", "0", "2", "2", "-", "0", "6", "-", "0", "2">>), 9000),
          Raw(<<"p", "r", "e", "s", "c", "r", "i", "p", "t", "i", "o", "n", "_", "d", "a", "t", "e">>, VStr(<<"l", "a", "s", "t", " ", "w", "e", "e", "k">>), -5000),
          Raw(<<"r", "e", "f", "i", "l", "l", "s">>, VNum(300), 9000),
          Raw(<<"r", "e", "f", "i", "l", "l", "s">>, VNum(1300), 9000),
          Raw(<<"r", "e", "f", "i", "l", "l", "s">>, VBig, 9000),
          Raw(<<"r", "e", "f", "i", "l", "l", "s">>, VStr(<<"t", "w", "o">>), 3000),
          Raw(<<"p", "h", "a", "r", "m", "a", "c", "y", "_", "p", "h", "o", "n", "e">>, VStr(<<"5", "5", "5", "1", "2", "3", "4", "5", "6", "7">>), 9000),
          Raw(<<"p", "h", "a", "r", "m", "a", "c", "y", "_", "p", "h", "o", "n", "e">>, VStr(<<"5", "5", "5", "-", "1", "2", "3", "4">>), 0) >>]

\* the text the OCR stage reads off a document of each kind, and a text
\* too short to be processed
GoodText ==
    [invoice |-> <<"I", "n", "v", "o", "i", "c", "e", " ", "I", "N", "V", "-", "0", "0", "1", " ", "f", "r", "o", "m", ":", " ", "A", "c", "m", "e", " ", "C", "o", " ", "t", "o", "t", "a", "l", " ", "1", "0", "0", ".", "0", "1", " ", "d", "u", "e", " ", "2", "0", "2", "4", "-", "0", "1", "-", "1", "5">>,
     medical_bill |-> <<"P", "a", "t", "i", "e", "n", "t", " ", "J", "a", "n", "e", " ", "D", "o", "e", " ", "C", "i", "t", "y", " ", "C", "l", "i", "n", "i", "c", " ", "t", "o", "t", "a", "l", " ", "c", "h", "a", "r", "g", "e", "s", " ", "2", "0", "0", ".", "0", "0">>,
     prescription |-> <<"R", "x", " ", "J", "a", "n", "e", " ", "D", "o", "e", " ", "D", "r", ".", " ", "S", "m", "i", "t", "h", " ", "A", "m", "o", "x", "i", "c", "i", "l", "l", "i", "n", " ", "5", "0", "0", "m", "g", " ", "5", "5", "5", "1", "2", "3", "4", "5", "6", "7">>]

ShortText == <<" ", " ", "n", "/", "a", " ", " ">>

\* the days on which validation runs: 2024-06-01 and 2024-06-02
Nows == {Ordinal(2024, 6, 1), Ordinal(2024, 6, 2)}

\* len(text_content.strip()) < 10
MIN_TEXT == 10

(***************************************************************************)
(* State                                                                   *)
(***************************************************************************)
VARIABLES
    kind,          \* the kind of document at hand
    pc,            \* "input" while the LLM response is being put together,
                   \* "api" once a component has been called directly, else
                   \* the stage process_document is about to run, or "done"
    fields,        \* the field dicts: the LLM response, then the list that
                   \* the stages hand on and score in place
    writer,        \* per field, the stage that last wrote its confidence
    text_content,  \* process_document: the extracted text
    doc_type,      \* process_document: the detected type
    attempt,       \* extract_structured_data: LLM calls made
    content,       \* extract_structured_data: what the LLM answered last
    last_error,    \* extract_structured_data: last_error, "" for None
    extraction_metadata,  \* <<>> or the 'extraction_metadata' it returned
    scoring,       \* <<>> or the outcome of the last calculate_field_confidence
    qa,            \* <<>> or the report of the last validate_extraction
    qa_arg,        \* the 'doc_type' key of its argument, "" when absent
    now,           \* the day of that call
    final_result,  \* <<>> or what process_document returned
    calls,         \* direct calls made
    last_op        \* the operation that led to this state

vars == <<kind, pc, fields, writer, text_content, doc_type, attempt, content,
          last_error, extraction_metadata, scoring,
          qa, qa_arg, now, final_result, calls, last_op>>

Init ==
    /\ kind \in DocTypes
    /\ pc = "input"
    /\ fields = <<>>
    /\ writer = <<>>
    /\ text_content = <<>>
    /\ doc_type = ""
    /\ attempt = 0
    /\ content = ""
    /\ last_error = ""
    /\ extraction_metadata = <<>>
    /\ scoring = <<>>
    /\ qa = <<>>
    /\ qa_arg = ""
    /\ now = 0
    /\ final_result = <<>>
    /\ calls = 0
    /\ last_op = "init"

PoolIndex(f) ==
    CHOOSE i \in 1..Len(Pool[kind]) :
        Pool[kind][i].name = f.name /\ Pool[kind][i].value = f.value

\* The LLM response gains a field, in the order of the pool
EmitField ==
    /\ pc = "input"
    /\ Len(fields) < MaxFields
    /\ \E i \in 1..Len(Pool[kind]) :
          /\ (IF fields = <<>> THEN 0 ELSE PoolIndex(fields[Len(fields)])) < i
          /\ fields' = Append(fields,
                               [Field(Pool[kind][i].name, Pool[kind][i].value,
                                      Pool[kind][i].confidence, Pool[kind][i].source)
                                  EXCEPT !.rated = Pool[kind][i].rated])
          /\ writer' = Append(writer, "llm")
    /\ last_op' = "emit"
    /\ UNCHANGED <<content, last_error, extraction_metadata>>
    /\ UNCHANGED <<kind, pc, text_content, doc_type, attempt, scoring, qa, qa_arg,
                   now, final_result, calls>>

(***************************************************************************)
(* Direct calls on the components                                          *)
(***************************************************************************)
\* ExtractionAgent.post_process_fields on the current list
CallPostProcess ==
    /\ pc \in {"input", "api"}
    /\ calls < MaxCalls
    /\ \A i \in 1..Len(writer) : writer[i] = "llm"
    /\ fields' = post_process_fields(fields, kind)
    /\ writer' = [i \in 1..Len(fields) |-> "extractor"]
    /\ pc' = "api"
    /\ calls' = calls + 1
    /\ last_op' = "post_process"
    /\ UNCHANGED <<content, last_error, extraction_metadata>>
    /\ UNCHANGED <<kind, text_content, doc_type, attempt, scoring, qa, qa_arg, now,
                   final_result>>

\* the source text and document type of a direct call of the scorer
ScoreArgs == {<<GoodText[kind], kind>>, <<ShortText, "receipt">>}

\* ConfidenceScorer.calculate_field_confidence on the current list
CallScore ==
    /\ pc \in {"input", "api"}
    /\ calls < MaxCalls
    /\ \E arg \in ScoreArgs :
          \E out \in {calculate_field_confidence(fields, arg[1], arg[2])} :
             /\ fields' = out.fields
             /\ writer' = [i \in 1..Len(fields) |->
                             IF i <= out.scored_count THEN "scorer" ELSE writer[i]]
             /\ scoring' = <<[raised |-> out.raised,
                              overall_confidence |-> out.overall_confidence,
                              field_count |-> out.field_count,
                              doc_type |-> arg[2]]>>
    /\ pc' = "api"
    /\ calls' = calls + 1
    /\ last_op' = "score"
    /\ UNCHANGED <<content, last_error, extraction_metadata>>
    /\ UNCHANGED <<kind, text_content, doc_type, attempt, qa, qa_arg, now, final_result>>

\* a validator that keeps its validation_results from one call to the next
CallValidateAccumulating ==
    /\ pc \in {"input", "api"}
    /\ calls < MaxCalls
    /\ \E key \in {kind, "receipt", ""} : \E day \in Nows :
          \E results \in {ApplyRules(
                              IF qa = <<>>
                              THEN [passed_rules |-> <<>>, failed_rules |-> <<>>,
                                    warnings |-> <<>>]
                              ELSE [passed_rules |-> qa[1].passed_rules,
                                    failed_rules |-> qa[1].failed_rules,
                                    warnings |-> qa[1].warnings],
                              IF key \in DOMAIN validation_rules THEN validation_rules[key]
                              ELSE validation_rules["invoice"],
                              1, FieldDict(fields), day)} :
             /\ qa' = <<[passed_rules |-> results.passed_rules,
                         failed_rules |-> results.failed_rules,
                         warnings |-> results.warnings,
                         notes |-> generate_validation_notes(results, fields)]>>
             /\ qa_arg' = key
             /\ now' = day
    /\ pc' = "api"
    /\ calls' = calls + 1
    /\ last_op' = "validate"
    /\ UNCHANGED <<content, last_error, extraction_metadata>>
    /\ UNCHANGED <<kind, fields, writer, text_content, doc_type, attempt, scoring,
                   final_result>>

\* DocumentValidator.validate_extraction on a dict with the current list
CallValidate ==
    /\ pc \in {"input", "api"}
    /\ calls < MaxCalls
    /\ \E key \in {kind, "receipt", ""} : \E day \in Nows :
          /\ qa' = <<validate_extraction([doc_type |-> key, fields |-> fields], day)>>
          /\ qa_arg' = key
          /\ now' = day
    /\ pc' = "api"
    /\ calls' = calls + 1
    /\ last_op' = "validate"
    /\ UNCHANGED <<content, last_error, extraction_metadata>>
    /\ UNCHANGED <<kind, fields, writer, text_content, doc_type, attempt, scoring,
                   final_result>>

(***************************************************************************)
(* agents/document_processor.py: process_document, stage by stage          *)
(***************************************************************************)
\* an except branch that hands back the fields gathered so far
ErrorResultWithFields(error) ==
    [doc_type |-> "error", fields |-> fields, overall_confidence |-> 0,
     qa |-> [passed_rules |-> <<>>, failed_rules |-> <<"processing_failed">>,
             warnings |-> <<>>, notes |-> <<[n |-> 0, text |-> "Processing failed"]>>],
     error |-> error]

\* the except branch of process_document: the record it returns.  The qa of
\* this record has no 'warnings' key, which <<>> stands for.
ErrorResult(error) ==
    [doc_type |-> "error", fields |-> <<>>, overall_confidence |-> 0,
     qa |-> [passed_rules |-> <<>>, failed_rules |-> <<"processing_failed">>,
             warnings |-> <<>>, notes |-> <<[n |-> 0, text |-> "Processing failed"]>>],
     error |-> error]

\* a first step that only checks that some text came back
PD_ExtractTextAnyLength ==
    /\ pc = "input"
    /\ \E ocr \in {[raised |-> "", text |-> t] : t \in {GoodText[kind], ShortText, <<>>}}
                    \cup {[raised |-> "Exception", text |-> <<>>]} :
          IF ocr.raised # ""
          THEN /\ text_content' = text_content
               /\ final_result' = <<ErrorResult(ocr.raised)>>
               /\ pc' = "done"
          ELSE /\ text_content' = ocr.text
               /\ IF ocr.text = <<>>
                  THEN /\ final_result' = <<ErrorResult("ValueError")>>
                       /\ pc' = "done"
                  ELSE /\ final_result' = final_result
                       /\ pc' = "classify"
    /\ last_op' = "extract_text"
    /\ UNCHANGED <<content, last_error, extraction_metadata>>
    /\ UNCHANGED <<kind, fields, writer, doc_type, attempt, scoring, qa, qa_arg, now, calls>>

\* Step 1: the text is read off the file, unless the OCR processor raises,
\* and checked for length
PD_ExtractText ==
    /\ pc = "input"
    /\ \E ocr \in {[raised |-> "", text |-> t] : t \in {GoodText[kind], ShortText, <<>>}}
                    \cup {[raised |-> "Exception", text |-> <<>>]} :
          IF ocr.raised # ""
          THEN /\ text_content' = text_content
               /\ final_result' = <<ErrorResult(ocr.raised)>>
               /\ pc' = "done"
          ELSE /\ text_content' = ocr.text
               /\ IF ocr.text = <<>> \/ Len(Strip(ocr.text)) < MIN_TEXT
                  THEN /\ final_result' = <<ErrorResult("ValueError")>>
                       /\ pc' = "done"
                  ELSE /\ final_result' = final_result
                       /\ pc' = "classify"
    /\ last_op' = "extract_text"
    /\ UNCHANGED <<content, last_error, extraction_metadata>>
    /\ UNCHANGED <<kind, fields, writer, doc_type, attempt, scoring, qa, qa_arg, now, calls>>

\* response.content.strip().lower() of the classifier
detect_document_type(response) ==
    IF response \in {"invoice", "medical_bill", "prescription"} THEN response
    ELSE "invoice"

\* Step 2: the LLM names the type, names something else, or the call fails
PD_Classify ==
    /\ pc = "classify"
    /\ \E response \in {kind, "receipt", "raise"} :
          doc_type' = detect_document_type(response)
    /\ pc' = "extract"
    /\ last_op' = "classify"
    /\ UNCHANGED <<content, last_error, extraction_metadata>>
    /\ UNCHANGED <<kind, fields, writer, text_content, attempt, scoring, qa, qa_arg, now,
                   final_result, calls>>

\* Step 3, one turn of the retry loop of extract_structured_data: the LLM
\* answers with the JSON of the fields, with JSON lacking 'fields', or with
\* text that is not JSON
PD_Extract ==
    /\ pc = "extract"
    /\ attempt < max_retries
    /\ attempt' = attempt + 1
    /\ \E answer \in {"fields", "no_fields", "not_json"} :
          /\ content' = answer
          /\ IF answer = "fields"
             THEN /\ fields' = post_process_fields(fields, doc_type)
                  /\ writer' = [i \in 1..Len(fields) |-> "extractor"]
                  /\ last_error' = last_error
                  /\ extraction_metadata' = <<[attempt |-> attempt + 1, attempts |-> 0,
                                               error |-> ""]>>
                  /\ pc' = "score"
             ELSE \E error \in {IF answer = "not_json" THEN "JSON parsing error"
                                 ELSE "Extraction error"} :
                  /\ last_error' = error
                  /\ IF attempt + 1 = max_retries
                     THEN /\ fields' = <<>>
                          /\ writer' = <<>>
                          /\ extraction_metadata' = <<[attempt |-> 0,
                                                       attempts |-> max_retries,
                                                       error |-> error]>>
                          /\ pc' = "score"
                     ELSE UNCHANGED <<fields, writer, extraction_metadata, pc>>
    /\ last_op' = "extract"
    /\ UNCHANGED <<kind, text_content, doc_type, scoring, qa, qa_arg, now, final_result,
                   calls>>

\* Step 4: the fields are scored; an exception ends the run in the except
\* branch
PD_Score ==
    /\ pc = "score"
    /\ \E out \in {calculate_field_confidence(fields, text_content, doc_type)} :
       /\ fields' = out.fields
       /\ writer' = [i \in 1..Len(fields) |->
                       IF i <= out.scored_count THEN "scorer" ELSE writer[i]]
       /\ scoring' = <<[raised |-> out.raised,
                        overall_confidence |-> out.overall_confidence,
                        field_count |-> out.field_count,
                        doc_type |-> doc_type]>>
       /\ IF out.raised # ""
          THEN /\ final_result' = <<ErrorResult(out.raised)>>
               /\ pc' = "done"
          ELSE /\ final_result' = final_result
               /\ pc' = "validate"
    /\ last_op' = "score"
    /\ UNCHANGED <<content, last_error, extraction_metadata>>
    /\ UNCHANGED <<kind, text_content, doc_type, attempt, qa, qa_arg, now, calls>>

\* Step 5: validate_extraction(confidence_result); the dict of the scorer
\* has the keys fields, overall_confidence and confidence_metadata
PD_Validate ==
    /\ pc = "validate"
    /\ \E day \in Nows :
          /\ qa' = <<validate_extraction([doc_type |-> "", fields |-> fields], day)>>
          /\ now' = day
    /\ qa_arg' = ""
    /\ pc' = "compile"
    /\ last_op' = "validate"
    /\ UNCHANGED <<content, last_error, extraction_metadata>>
    /\ UNCHANGED <<kind, fields, writer, text_content, doc_type, attempt, scoring,
                   final_result, calls>>

\* Step 6: the record is put together and returned
PD_Compile ==
    /\ pc = "compile"
    /\ final_result' = <<[doc_type |-> doc_type, fields |-> fields,
                          overall_confidence |-> scoring[1].overall_confidence,
                          qa |-> qa[1], error |-> ""]>>
    /\ pc' = "done"
    /\ last_op' = "compile"
    /\ UNCHANGED <<content, last_error, extraction_metadata>>
    /\ UNCHANGED <<kind, fields, writer, text_content, doc_type, attempt, scoring, qa,
                   qa_arg, now, calls>>

Next ==
    \/ EmitField
    \/ CallPostProcess
    \/ CallScore
    \/ CallValidate
    \/ PD_ExtractText
    \/ PD_Classify
    \/ PD_Extract
    \/ PD_Score
    \/ PD_Validate
    \/ PD_Compile

Spec == Init /\ [][Next]_vars

(***************************************************************************)
(* generate_validation_notes on its own: the summary of any report over    *)
(* any field list                                                          *)
(***************************************************************************)
\* a report comes with any field list of up to MaxFields fields, their
\* confidences around the threshold of 0.6
NotesInit ==
    LET NoteConfidences == {0, LOW_CONFIDENCE - 1, LOW_CONFIDENCE, 9 * (CONF_ONE \div 10)}
        NoteFields ==
            UNION {[1..n -> {Field(<<"n", "a", "m", "e">>, VStr(<<"x">>), c, "llm") :
                                c \in NoteConfidences}] : n \in 0..MaxFields}
    IN  /\ kind \in DocTypes
        /\ pc = "notes"
        /\ fields \in NoteFields
        /\ writer = [i \in 1..Len(fields) |-> "llm"]
        /\ text_content = <<>>
        /\ doc_type = ""
        /\ attempt = 0
        /\ content = ""
        /\ last_error = ""
        /\ extraction_metadata = <<>>
        /\ scoring = <<>>
        /\ qa = <<>>
        /\ qa_arg = ""
        /\ now = 0
        /\ final_result = <<>>
        /\ calls = 0
        /\ last_op = "init"

\* DocumentValidator.generate_validation_notes on the failed_rules and
\* warnings of a report and on the list
CallNotes ==
    LET NoteFailed == {<<>>, <<"required_fields">>, <<"date_format", "required_fields">>,
                       <<"prescription_age">>}
        NoteWarnings == {<<>>, <<[text |-> "Prescription is older than 2 years",
                                  rule |-> "prescription_age"]>>}
    IN  /\ pc = "notes"
        /\ calls < MaxCalls
        /\ \E failed \in NoteFailed : \E warned \in NoteWarnings :
              qa' = <<[passed_rules |-> <<>>, failed_rules |-> failed, warnings |-> warned,
                       notes |-> generate_validation_notes(
                                     [passed_rules |-> <<>>, failed_rules |-> failed,
                                      warnings |-> warned], fields)]>>
        /\ calls' = calls + 1
        /\ last_op' = "notes"
        /\ UNCHANGED <<content, last_error, extraction_metadata>>
        /\ UNCHANGED <<kind, pc, fields, writer, text_content, doc_type, attempt, scoring,
                       qa_arg, now, final_result>>

SpecNotes == NotesInit /\ [][CallNotes]_vars

(***************************************************************************)
(* The scorer on its own: calculate_field_confidence on lists of probe     *)
(* fields, with the source text and the document type of the call          *)
(***************************************************************************)
ScoreInit ==
    LET \* a value of more than 200 characters
        LongValue == [i \in 1..201 |-> "a"]
        Probes ==
            { Raw(<<"i", "n", "v", "o", "i", "c", "e", "_", "n", "u", "m", "b", "e", "r">>, VStr(<<"I", "N", "V", "-", "0", "0", "1">>), 9000),
              Raw(<<"i", "n", "v", "o", "i", "c", "e", "_", "n", "u", "m", "b", "e", "r">>, VStr(<<"I", "N", "V", "-", "0", "0", "0", "1">>), 9000),
              RawUnrated(<<"i", "n", "v", "o", "i", "c", "e", "_", "n", "u", "m", "b", "e", "r">>, VStr(<<"I", "N", "V", "-", "0", "0", "1">>)),
              Raw(<<"v", "e", "n", "d", "o", "r", "_", "n", "a", "m", "e">>, VStr(<<"A", "c", "m", "e", " ", "C", "o">>), 9000),
              Raw(<<"v", "e", "n", "d", "o", "r", "_", "n", "a", "m", "e">>, VStr(<<"A", "c", "m", "e", " ", "C", "o">>), 0),
              Raw(<<"v", "e", "n", "d", "o", "r", "_", "n", "a", "m", "e">>, VStr(<<"A", "1">>), 9000),
              Raw(<<"v", "e", "n", "d", "o", "r", "_", "n", "a", "m", "e">>, VNull, 9000),
              Raw(<<"v", "e", "n", "d", "o", "r", "_", "n", "a", "m", "e">>, VStr(<<>>), 9000),
              Raw(<<"p", "r", "o", "v", "i", "d", "e", "r", "_", "n", "a", "m", "e">>, VStr(<<"C", "i", "t", "y", " ", "C", "l", "i", "n", "i", "c">>), 9000),
              Raw(<<"f", "i", "l", "e", "n", "a", "m", "e">>, VStr(<<"s", "c", "a", "n">>), 9000),
              Raw(<<"v", "e", "n", "d", "o", "r", "_", "a", "d", "d", "r", "e", "s", "s">>, VStr(<<"1", "2", "B", "4", " ", "E", "l", "m", " ", "S", "t">>), 9000),
              Raw(<<"n", "o", "t", "e", "s">>, VStr(<<"1", "2", "b", "4", " ", "A", "d", "d", "r", "e", "s", "s">>), 9000),
              Raw(<<"n", "o", "t", "e", "s">>, VStr(<<"z">>), 9000),
              Raw(<<"n", "o", "t", "e", "s">>, VStr(LongValue), 9000),
              Raw(<<"n", "o", "t", "e", "s">>, VStr(<<"a", "|", "|", "b", " ", " ", " ", "c">>), 9000),
              Raw(<<"n", "o", "t", "e", "s">>, VStr(<<"a", "a", "a", "a", "z">>), 9000),
              Raw(<<"n", "o", "t", "e", "s">>, VStr(<<"a", "z", "z", "z", "z">>), 9000),
              Raw(<<"n", "o", "t", "e", "s">>, VStr(<<"-", "-">>), 9000) }
        ProbeFields == {[Field(p.name, p.value, p.confidence, p.source)
                            EXCEPT !.rated = p.rated] : p \in Probes}
        ProbeLists == UNION {[1..n -> ProbeFields] : n \in 1..2}
        \* a total with its subtotal and tax, a due date with its invoice date
        AmountLists ==
            {<<Field(<<"t", "o", "t", "a", "l", "_", "a", "m", "o", "u", "n", "t">>, VStr(t), 9000, "llm"),
               Field(<<"s", "u", "b", "t", "o", "t", "a", "l">>, VStr(<<"9", "0", ".", "0", "0">>), 9000, "llm"),
               Field(<<"t", "a", "x", "_", "a", "m", "o", "u", "n", "t">>, VStr(x), 9000, "llm")>> :
                 t \in {<<"1", "0", "0", ".", "0", "0">>, <<"1", "0", "0", ".", "0", "1">>, <<"1", "0", "0", ".", "0", "2">>, <<"N", "/", "A">>}, x \in {<<"1", "0", ".", "0", "0">>, <<"N", "/", "A">>}}
        DateLists ==
            {<<Field(<<"i", "n", "v", "o", "i", "c", "e", "_", "d", "a", "t", "e">>, VStr(<<"2", "0", "2", "4", "-", "0", "1", "-", "1", "5">>), 9000, "llm"),
               Field(<<"d", "u", "e", "_", "d", "a", "t", "e">>, VStr(d), 9000, "llm")>> :
                 d \in {<<"2", "0", "2", "4", "-", "0", "1", "-", "1", "5">>, <<"2", "0", "2", "4", "-", "0", "2", "-", "1", "4">>, <<"2", "0", "2", "3", "-", "1", "2", "-", "3", "1">>}}
        ProbeTexts == { <<"I", "n", "v", "o", "i", "c", "e", " ", "I", "N", "V", "-", "0", "0", "1", " ", "f", "r", "o", "m", ":", " ", "A", "c", "m", "e", " ", "C", "o", ",", " ", "C", "i", "t", "y", " ", "C", "l", "i", "n", "i", "c", ",", " ", "1", "2", "B", "4", " ", "E", "l", "m", " ", "S", "t", ".", " ", "T", "o", "t", "a", "l", " ", "1", "0", "0", ".", "0", "0">>, <<>> }
        \* two invoice dates around the due date
        RepeatLists ==
            {<<Field(<<"i", "n", "v", "o", "i", "c", "e", "_", "d", "a", "t", "e">>, VStr(d[1]), 9000, "llm"),
               Field(<<"i", "n", "v", "o", "i", "c", "e", "_", "d", "a", "t", "e">>, VStr(d[2]), 9000, "llm"),
               Field(<<"d", "u", "e", "_", "d", "a", "t", "e">>, VStr(<<"2", "0", "2", "4", "-", "0", "2", "-", "1", "4">>), 9000, "llm")>> :
                 d \in {<<<<"2", "0", "2", "4", "-", "0", "1", "-", "1", "5">>, <<"2", "0", "2", "4", "-", "0", "3", "-", "0", "1">>>>, <<<<"2", "0", "2", "4", "-", "0", "3", "-", "0", "1">>, <<"2", "0", "2", "4", "-", "0", "1", "-", "1", "5">>>>}}
    IN  /\ kind \in {"invoice"}
        /\ pc = "probe"
        /\ fields \in ProbeLists \cup AmountLists \cup DateLists \cup RepeatLists
        /\ writer = [i \in 1..Len(fields) |-> "llm"]
        /\ text_content \in ProbeTexts
        /\ doc_type \in {"invoice", "medical_bill", "receipt"}
        /\ attempt = 0
        /\ content = ""
        /\ last_error = ""
        /\ extraction_metadata = <<>>
        /\ scoring = <<>>
        /\ qa = <<>>
        /\ qa_arg = ""
        /\ now = 0
        /\ final_result = <<>>
        /\ calls = 0
        /\ last_op = "init"

\* ConfidenceScorer.calculate_field_confidence(fields, text_content, doc_type)
CallScoreOn ==
    /\ pc = "probe"
    /\ calls < MaxCalls
    /\ \E out \in {calculate_field_confidence(fields, text_content, doc_type)} :
          /\ fields' = out.fields
          /\ writer' = [i \in 1..Len(fields) |->
                          IF i <= out.scored_count THEN "scorer" ELSE writer[i]]
          /\ scoring' = <<[raised |-> out.raised,
                           overall_confidence |-> out.overall_confidence,
                           field_count |-> out.field_count,
                           doc_type |-> doc_type]>>
    /\ calls' = calls + 1
    /\ last_op' = "score"
    /\ UNCHANGED <<content, last_error, extraction_metadata>>
    /\ UNCHANGED <<kind, pc, text_content, doc_type, attempt, qa, qa_arg, now, final_result>>

SpecScore == ScoreInit /\ [][CallScoreOn]_vars

(***************************************************************************)
(* Properties                                                              *)
(***************************************************************************)
Has(seq, x) == \E i \in 1..Len(seq) : seq[i] = x

Count(seq, x) == Cardinality({i \in 1..Len(seq) : seq[i] = x})

\* the catalogue that the last validate_extraction went through
UsedCatalogue ==
    IF qa_arg \in DOMAIN validation_rules THEN validation_rules[qa_arg]
    ELSE validation_rules["invoice"]

\* the field values that call read
ReadDict == FieldDict(fields)

\* C1: every confidence written by the extractor's post-processing or by
\* the scorer lies in [0, 1], whatever confidence the LLM gave the field.
C1_ConfidenceInRange ==
    \A i \in 1..Len(fields) :
        writer[i] # "llm" => 0 <= fields[i].confidence /\ fields[i].confidence <= CONF_ONE

\* a field the LLM rated above 1 has been scored down to exactly 1
C1_Witness ==
    \E i \in 1..Len(fields) :
        /\ writer[i] = "scorer"
        /\ fields[i].breakdown # <<>>
        /\ fields[i].breakdown[1].base_confidence > CONF_ONE
        /\ fields[i].confidence = CONF_ONE

\* C2: calculate_field_confidence returns a scored result for every field
\* list whose values are strings, numbers or null: it never raises.
C2_ScoringNeverRaises ==
    scoring # <<>> => scoring[1].raised = ""

\* the name under which rule R of a catalogue is recorded in a report, once
RecordedOnce(report, R) ==
    Count(report.passed_rules, R) + Count(report.failed_rules, R)
      + Count(report.failed_rules, R \o "_error") = 1

\* C3: the record process_document returns for a document of type T carries
\* a report over the rules of T's own catalogue.
C3_OwnCatalogue ==
    (pc = "done" /\ final_result[1].doc_type \in DocTypes) =>
        \A k \in 1..Len(validation_rules[final_result[1].doc_type]) :
            RecordedOnce(final_result[1].qa,
                         validation_rules[final_result[1].doc_type][k].name)

\* C4: in every report each rule R of the catalogue appears exactly once, as
\* R in passed_rules, as R in failed_rules or as R_error in failed_rules; the
\* two lists are disjoint and together hold as many entries as the
\* catalogue has rules.
C4_RulePartition ==
    qa # <<>> =>
        /\ \A k \in 1..Len(UsedCatalogue) : RecordedOnce(qa[1], UsedCatalogue[k].name)
        /\ \A i \in 1..Len(qa[1].passed_rules) :
              ~Has(qa[1].failed_rules, qa[1].passed_rules[i])
        /\ Len(qa[1].passed_rules) + Len(qa[1].failed_rules) = Len(UsedCatalogue)

\* a report with a passed rule, a failed rule and a rule that raised
C4_Witness ==
    /\ qa # <<>>
    /\ qa[1].passed_rules # <<>>
    /\ \E i, j \in 1..Len(qa[1].failed_rules) :
          /\ \E k \in 1..Len(UsedCatalogue) :
                qa[1].failed_rules[i] = UsedCatalogue[k].name \o "_error"
          /\ \E k \in 1..Len(UsedCatalogue) :
                qa[1].failed_rules[j] = UsedCatalogue[k].name

\* C5: validate_extraction returns a report for every field list; a rule R
\* whose evaluation raises is recorded as R_error in failed_rules with one
\* warning, and the rules after it are still evaluated.
C5_RaisingRuleIsolated ==
    last_op = "validate" =>
        /\ qa # <<>>
        /\ \A k \in 1..Len(UsedCatalogue) :
              apply_validation_rule(UsedCatalogue[k], ReadDict, now).raised # "" =>
                 /\ Has(qa[1].failed_rules, UsedCatalogue[k].name \o "_error")
                 /\ Count(qa[1].warnings, [text |-> "Validation error in",
                                           rule |-> UsedCatalogue[k].name]) = 1
                 /\ \A j \in (k + 1)..Len(UsedCatalogue) :
                       RecordedOnce(qa[1], UsedCatalogue[j].name)

\* a rule raised and a later rule of the catalogue passed
C5_Witness ==
    /\ last_op = "validate"
    /\ \E k \in 1..Len(UsedCatalogue) : \E j \in (k + 1)..Len(UsedCatalogue) :
          /\ apply_validation_rule(UsedCatalogue[k], ReadDict, now).raised # ""
          /\ Has(qa[1].failed_rules, UsedCatalogue[k].name \o "_error")
          /\ Has(qa[1].passed_rules, UsedCatalogue[j].name)

\* the age in days of the prescription_date that the call read, -1 when
\* there is none that parses
RxDaysOld ==
    LET d == DictGet(ReadDict, <<"p", "r", "e", "s", "c", "r", "i", "p", "t", "i", "o", "n", "_", "d", "a", "t", "e">>)
    IN  IF Truthy(d) /\ d.t = "str" /\ Strptime(d.s).ok THEN now - Strptime(d.s).ord
        ELSE -1

RxWarning == [text |-> "Prescription is over 2 years old", rule |-> "prescription_age"]

ErrorEntries(report) ==
    {i \in 1..Len(report.failed_rules) :
        \E k \in 1..Len(UsedCatalogue) :
            report.failed_rules[i] = UsedCatalogue[k].name \o "_error"}

\* C6: a prescription_date more than 730 days old puts prescription_age in
\* failed_rules and its message in warnings, one of at most 730 days passes,
\* and a failure of any other rule that did not raise adds no warning.
C6_SoftFailure ==
    (last_op = "validate" /\ qa_arg = "prescription") =>
        /\ RxDaysOld > MAX_RX_DAYS =>
              Has(qa[1].failed_rules, "prescription_age") /\ Count(qa[1].warnings, RxWarning) = 1
        /\ (0 <= RxDaysOld /\ RxDaysOld <= MAX_RX_DAYS) =>
              Has(qa[1].passed_rules, "prescription_age") /\ ~Has(qa[1].warnings, RxWarning)
        /\ Len(qa[1].warnings) = Cardinality(ErrorEntries(qa[1]))
                                 + (IF RxDaysOld > MAX_RX_DAYS THEN 1 ELSE 0)

\* a prescription 731 days old was validated, next to another failed rule
C6_Witness ==
    /\ last_op = "validate" /\ qa_arg = "prescription"
    /\ RxDaysOld = MAX_RX_DAYS + 1
    /\ Has(qa[1].warnings, RxWarning)
    /\ Len(qa[1].failed_rules) >= 2
    /\ Len(qa[1].warnings) = 1

\* C7: a field whose value is null or empty has confidence exactly 0 once
\* the scorer has written it, and carries no sub-scores.
C7_EmptyValueScoresZero ==
    \A i \in 1..Len(fields) :
        (writer[i] = "scorer" /\ ~Truthy(fields[i].value)) =>
            fields[i].confidence = 0 /\ fields[i].breakdown = <<>>

\* a null value the LLM rated 0.9 has been scored next to a scored sibling
C7_Witness ==
    /\ last_op = "score"
    /\ \E i, j \in 1..Len(fields) :
          /\ writer[i] = "scorer" /\ fields[i].value = VNull /\ fields[i].confidence = 0
          /\ writer[j] = "scorer" /\ fields[j].breakdown # <<>>

\* C8: the overall confidence of a returned scoring lies in [0, 1], and for
\* the empty field list it is 0 with field_count 0, returned normally.
C8_OverallInRange ==
    /\ (scoring # <<>> /\ scoring[1].raised = "") =>
          0 <= scoring[1].overall_confidence /\ scoring[1].overall_confidence <= CONF_ONE
    /\ (last_op = "score" /\ fields = <<>>) =>
          /\ scoring[1].raised = ""
          /\ scoring[1].overall_confidence = 0
          /\ scoring[1].field_count = 0

\* a list of one field without value was scored for a type none of whose
\* critical fields it has: the sum of the terms is below 0, the result is 0
C8_Witness ==
    /\ last_op = "score"
    /\ Len(fields) = 1 /\ ~Truthy(fields[1].value)
    /\ scoring[1].raised = ""
    /\ scoring[1].field_count = 1
    /\ scoring[1].overall_confidence = 0

\* the amount in hundredths that float() reads from a value
CentsOf(v) == IF v.t = "num" THEN v.n ELSE ParseFloat(v.s).n

\* the operands of a sum rule all convert to float
SumOperandsOk(a, b, c) ==
    \A nm \in {a, b, c} : PyFloat(DictGetOr0(ReadDict, nm)).err = ""

\* |a + b - c| <= 0.01, a missing operand being 0
WithinTolerance(a, b, c) ==
    Abs(CentsOf(DictGetOr0(ReadDict, a)) + CentsOf(DictGetOr0(ReadDict, b))
        - CentsOf(DictGetOr0(ReadDict, c))) <= TOLERANCE_CENTS

\* C9: totals_match and charges_breakdown pass exactly when the sum of the
\* two parts is within 0.01 of the total, a missing operand counting as 0:
\* a difference of exactly 0.01 passes.
C9_SumWithinTolerance ==
    /\ (last_op = "validate" /\ qa_arg \in {"invoice", ""}
        /\ SumOperandsOk(<<"s", "u", "b", "t", "o", "t", "a", "l">>, <<"t", "a", "x", "_", "a", "m", "o", "u", "n", "t">>, <<"t", "o", "t", "a", "l", "_", "a", "m", "o", "u", "n", "t">>)) =>
          (Has(qa[1].passed_rules, "totals_match")
             <=> WithinTolerance(<<"s", "u", "b", "t", "o", "t", "a", "l">>, <<"t", "a", "x", "_", "a", "m", "o", "u", "n", "t">>, <<"t", "o", "t", "a", "l", "_", "a", "m", "o", "u", "n", "t">>))
    /\ (last_op = "validate" /\ qa_arg = "medical_bill"
        /\ SumOperandsOk(<<"i", "n", "s", "u", "r", "a", "n", "c", "e", "_", "p", "a", "i", "d">>, <<"p", "a", "t", "i", "e", "n", "t", "_", "r", "e", "s", "p", "o", "n", "s", "i", "b", "i", "l", "i", "t", "y">>, <<"t", "o", "t", "a", "l", "_", "c", "h", "a", "r", "g", "e", "s">>)) =>
          (Has(qa[1].passed_rules, "charges_breakdown")
             <=> WithinTolerance(<<"i", "n", "s", "u", "r", "a", "n", "c", "e", "_", "p", "a", "i", "d">>, <<"p", "a", "t", "i", "e", "n", "t", "_", "r", "e", "s", "p", "o", "n", "s", "i", "b", "i", "l", "i", "t", "y">>,
                                 <<"t", "o", "t", "a", "l", "_", "c", "h", "a", "r", "g", "e", "s">>))

\* C10: due_date_logic passes when invoice_date or due_date is missing, and
\* otherwise exactly when due_date >= invoice_date as strings.
C10_DueDateLexical ==
    (last_op = "validate" /\ qa_arg \in {"invoice", ""}) =>
        LET invoice_date == DictGet(ReadDict, <<"i", "n", "v", "o", "i", "c", "e", "_", "d", "a", "t", "e">>)
            due_date == DictGet(ReadDict, <<"d", "u", "e", "_", "d", "a", "t", "e">>)
        IN  Has(qa[1].passed_rules, "due_date_logic")
              <=> \/ ~Truthy(invoice_date)
                  \/ ~Truthy(due_date)
                  \/ ~StrLess(due_date.s, invoice_date.s)

\* both dates were read, they are equal, and the rule passed
C10_Witness ==
    /\ last_op = "validate" /\ qa_arg \in {"invoice", ""}
    /\ Truthy(DictGet(ReadDict, <<"i", "n", "v", "o", "i", "c", "e", "_", "d", "a", "t", "e">>))
    /\ DictGet(ReadDict, <<"d", "u", "e", "_", "d", "a", "t", "e">>) = DictGet(ReadDict, <<"i", "n", "v", "o", "i", "c", "e", "_", "d", "a", "t", "e">>)
    /\ Has(qa[1].passed_rules, "due_date_logic")

\* the not_empty rule of the catalogue the last validation went through
RequiredRule ==
    UsedCatalogue[CHOOSE k \in 1..Len(UsedCatalogue) :
                      UsedCatalogue[k].validation = "not_empty"]

\* a listed field is present: it has a value that is not null and, when a
\* string, is not blank after trimming
PresentValue(d, name) ==
    /\ name \in DOMAIN d
    /\ d[name].t # "null"
    /\ d[name].t = "str" => Strip(d[name].s) # <<>>

\* the listed fields of the not_empty rule that are missing or blank
MissingRequired ==
    {i \in 1..Len(RequiredRule.fields) : ~PresentValue(ReadDict, RequiredRule.fields[i])}

\* C11: a not_empty rule passes exactly when every listed field is present
\* with a non-null value that, if a string, is non-blank after trimming (a
\* number such as 0 counts as present); when it fails, its message names the
\* first listed field that is missing or blank.
C11_NotEmptyExact ==
    (last_op = "validate" /\ qa # <<>>) =>
        /\ Has(qa[1].passed_rules, RequiredRule.name) <=> MissingRequired = {}
        /\ MissingRequired # {} =>
              validate_not_empty(RequiredRule, ReadDict).message.field
                = RequiredRule.fields[CHOOSE i \in MissingRequired :
                                          \A j \in MissingRequired : i <= j]

\* the whole of s matches the regex of a pattern rule: a date has the ten
\* characters of dddd-dd-dd, a phone the ten of dddddddddd or the fourteen
\* of (ddd) ddd-dddd
FullMatch(pattern, s) ==
    /\ ReMatch(pattern, s)
    /\ Len(s) \in (IF pattern = "date" THEN {10} ELSE {10, 14})

\* the listed fields of a rule whose value is present and not null
GivenFields(rule_config) ==
    {i \in 1..Len(rule_config.fields) :
        /\ rule_config.fields[i] \in DOMAIN ReadDict
        /\ ReadDict[rule_config.fields[i]].t # "null"}

\* C12: a pattern rule fails exactly when some listed field is present with
\* a non-null value that does not fully match the rule's regex; absent and
\* null fields are skipped, every other value, the empty string included,
\* must match.
C12_PatternExact ==
    (last_op = "validate" /\ qa # <<>>) =>
        \A k \in 1..Len(UsedCatalogue) :
            UsedCatalogue[k].pattern # "" =>
                (Has(qa[1].failed_rules, UsedCatalogue[k].name)
                   <=> \E i \in GivenFields(UsedCatalogue[k]) :
                          ~FullMatch(UsedCatalogue[k].pattern,
                                     StrOf(ReadDict[UsedCatalogue[k].fields[i]])))

\* the bound the numeric rules put on a parsed value: greater than zero for
\* numeric_positive, min_value <= v <= max_value for numeric_range
WithinBound(rule_config, f) ==
    IF rule_config.validation = "numeric_positive" THEN FLess(FromCents(0), f)
    ELSE /\ ~FLess(f, FromCents(100 * rule_config.min_value))
         /\ ~FLess(FromCents(100 * rule_config.max_value), f)

\* a given value parses as a number that satisfies the bound of the rule
NumericOk(rule_config, value) ==
    PyFloat(value).err = "" /\ WithinBound(rule_config, PyFloat(value).f)

\* C13: a numeric rule skips the listed fields that are absent or null,
\* fails on a present value that does not parse as a number, and requires of
\* a parsed value its bound: greater than zero for numeric_positive on the
\* amount fields, 0 <= v <= 12 for numeric_range on refills.
C13_NumericBounds ==
    (last_op = "validate" /\ qa # <<>>) =>
        \A k \in 1..Len(UsedCatalogue) :
            UsedCatalogue[k].validation \in {"numeric_positive", "numeric_range"} =>
                (Has(qa[1].passed_rules, UsedCatalogue[k].name)
                   <=> \A i \in GivenFields(UsedCatalogue[k]) :
                          NumericOk(UsedCatalogue[k],
                                    ReadDict[UsedCatalogue[k].fields[i]]))

\* the number of fields of the list with a confidence below 0.6
LowConfidenceCount ==
    Cardinality({i \in 1..Len(fields) : 10 * fields[i].confidence < 6 * CONF_ONE})

\* the three parts of the summary in their order, those with count 0 left out
ExpectedNotes ==
    LET counted(p) == p.n # 0
    IN  SelectSeq(<<[n |-> Len(qa[1].failed_rules), text |-> "validation rules failed"],
                    [n |-> LowConfidenceCount, text |-> "low-confidence fields"],
                    [n |-> Len(qa[1].warnings), text |-> "warnings"]>>, counted)

\* C14: the notes of a report are "All validations passed successfully"
\* exactly when failed_rules is empty, no field has a confidence below 0.6
\* and warnings is empty; otherwise they are, joined in this order, the parts
\* "<n> validation rules failed", "<n> low-confidence fields" and
\* "<n> warnings" whose count is not zero.
C14_NotesSummary ==
    (qa # <<>> /\ last_op \in {"validate", "notes"}) =>
        /\ qa[1].notes = <<>> <=> (/\ qa[1].failed_rules = <<>>
                                   /\ LowConfidenceCount = 0
                                   /\ qa[1].warnings = <<>>)
        /\ qa[1].notes = ExpectedNotes

\* a summary of all three parts over a list with one field below 0.6 and one
\* at exactly 0.6
C14_Witness ==
    /\ qa # <<>> /\ last_op = "notes"
    /\ Len(qa[1].notes) = 3
    /\ qa[1].notes[2].n = 1
    /\ \E i \in 1..Len(fields) : fields[i].confidence = LOW_CONFIDENCE

\* a stage of the finished run failed: no text came out of the OCR, the
\* text was too short, or the scorer raised
StageFailed ==
    \/ Len(Strip(text_content)) < MIN_TEXT
    \/ scoring # <<>> /\ scoring[1].raised # ""

\* C15: process_document never raises: a run always ends with a record, and
\* on a failure in a stage (text empty or shorter than 10 characters after
\* trimming, or an exception that a stage raises) the record is the
\* sentinel: doc_type "error", no fields, overall_confidence 0.0,
\* qa.failed_rules = ["processing_failed"] and qa.passed_rules empty.
C15_SentinelOnFailure ==
    pc = "done" =>
        /\ Len(final_result) = 1
        /\ StageFailed =>
              /\ final_result[1].doc_type = "error"
              /\ final_result[1].fields = <<>>
              /\ final_result[1].overall_confidence = 0
              /\ final_result[1].qa.failed_rules = <<"processing_failed">>
              /\ final_result[1].qa.passed_rules = <<>>

\* a run over a good text and a non-empty field list that ended in the
\* except branch because the scorer raised
C15_Witness ==
    /\ pc = "done"
    /\ Len(Strip(text_content)) >= MIN_TEXT
    /\ fields # <<>>
    /\ scoring # <<>> /\ scoring[1].raised # ""
    /\ final_result[1].doc_type = "error"

\* a turn of the retry loop: the LLM is invoked once more
LLMInvoked == attempt' # attempt

\* what such a turn does with the answer it gets
ExtractTurn ==
    /\ attempt' = attempt + 1
    /\ attempt' <= 3
    /\ extraction_metadata = <<>>
    /\ IF content' = "fields"
       THEN /\ pc' = "score"
            /\ Len(fields') = Len(fields)
            /\ extraction_metadata' = <<[attempt |-> attempt', attempts |-> 0, error |-> ""]>>
       ELSE IF attempt' < 3
       THEN /\ pc' = "extract"
            /\ extraction_metadata' = <<>>
       ELSE /\ pc' = "score"
            /\ fields' = <<>>
            /\ last_error' # ""
            /\ extraction_metadata' = <<[attempt |-> 0, attempts |-> 3,
                                         error |-> last_error']>>

CleanEmptyReport(report, catalogue) ==
    /\ report.failed_rules = <<"required_fields">>
    /\ report.warnings = <<>>
    /\ \A k \in 1..Len(catalogue) :
          catalogue[k].name # "required_fields" => Has(report.passed_rules, catalogue[k].name)
    /\ Len(report.passed_rules) = Len(catalogue) - 1

\* C17: with an empty field list the scorer returns an overall confidence of
\* 0.0 and validate_extraction a report in which required_fields is the only
\* failed rule, every other rule of the catalogue has passed, no "_error"
\* entry exists and warnings is empty; process_document then returns a
\* normal record under the classified type, not the error sentinel.
C17_EmptyListDegrades ==
    /\ (fields = <<>> /\ last_op = "score") =>
          (scoring[1].raised = "" /\ scoring[1].overall_confidence = 0)
    /\ (fields = <<>> /\ last_op = "validate") => CleanEmptyReport(qa[1], UsedCatalogue)
    /\ (fields = <<>> /\ pc = "done" /\ scoring # <<>>) =>
          /\ final_result[1].doc_type = doc_type
          /\ doc_type \in DocTypes
          /\ final_result[1].error = ""
          /\ final_result[1].fields = <<>>
          /\ final_result[1].overall_confidence = 0
          /\ CleanEmptyReport(final_result[1].qa, UsedCatalogue)

\* a run in which the extraction gave up after three failed attempts and
\* the record came out under the classified type
C17_Witness ==
    /\ pc = "done"
    /\ extraction_metadata # <<>> /\ extraction_metadata[1].attempts = max_retries
    /\ final_result[1].doc_type \in DocTypes
    /\ final_result[1].fields = <<>>
    /\ final_result[1].qa.failed_rules = <<"required_fields">>

\* the four critical names fixed for each type, the invoice names for any
\* other type
CriticalNames(type) ==
    IF type = "medical_bill"
    THEN <<<<"p", "a", "t", "i", "e", "n", "t", "_", "n", "a", "m", "e">>, <<"p", "r", "o", "v", "i", "d", "e", "r", "_", "n", "a", "m", "e">>, <<"t", "o", "t", "a", "l", "_", "c", "h", "a", "r", "g", "e", "s">>, <<"s", "e", "r", "v", "i", "c", "e", "_", "d", "a", "t", "e">>>>
    ELSE IF type = "prescription"
    THEN <<<<"p", "a", "t", "i", "e", "n", "t", "_", "n", "a", "m", "e">>, <<"d", "o", "c", "t", "o", "r", "_", "n", "a", "m", "e">>, <<"m", "e", "d", "i", "c", "a", "t", "i", "o", "n", "s">>, <<"p", "r", "e", "s", "c", "r", "i", "p", "t", "i", "o", "n", "_", "d", "a", "t", "e">>>>
    ELSE <<<<"i", "n", "v", "o", "i", "c", "e", "_", "n", "u", "m", "b", "e", "r">>, <<"t", "o", "t", "a", "l", "_", "a", "m", "o", "u", "n", "t">>, <<"v", "e", "n", "d", "o", "r", "_", "n", "a", "m", "e">>, <<"i", "n", "v", "o", "i", "c", "e", "_", "d", "a", "t", "e">>>>

\* the overall confidence of a scored list when the critical fields are
\* those of CriticalNames
OverallOver(fs, type) ==
    LET n == Len(fs)
        mean == SumSeq([i \in 1..n |-> fs[i].confidence]) \div n
        std == IF n > 1
               THEN Isqrt(SumSeq([i \in 1..n |-> (fs[i].confidence - mean)
                                                 * (fs[i].confidence - mean)]) \div n)
               ELSE 0
        crit == CriticalNames(type)
        at(k) == {i \in 1..n : fs[i].name = crit[k]}
        first(k) == CHOOSE i \in at(k) : \A j \in at(k) : i <= j
        strong == {k \in 1..4 : at(k) # {} /\ fs[first(k)].confidence > CRITICAL_THRESHOLD}
        missing == {k \in 1..4 : at(k) = {}}
    IN  Clamp01(mean - Min(MAX_VARIANCE_PENALTY, std \div 2)
                + CRITICAL_BONUS * Cardinality(strong)
                - MISSING_PENALTY * Cardinality(missing)
                + Min(MAX_COUNT_FACTOR, n * COUNT_STEP))

\* the rules of the invoice catalogue, by name
InvoiceRuleNames ==
    <<"date_format", "amount_format", "totals_match", "due_date_logic", "required_fields">>

\* C18: for a document type outside {invoice, medical_bill, prescription}
\* the scorer uses the invoice critical fields (invoice_number, total_amount,
\* vendor_name, invoice_date) and the validator the invoice catalogue; for
\* each known type the critical fields are exactly the four names fixed for
\* that type.
C18_UnknownTypeIsInvoice ==
    /\ (last_op = "score" /\ scoring[1].raised = "" /\ fields # <<>>) =>
          scoring[1].overall_confidence = OverallOver(fields, scoring[1].doc_type)
    /\ (last_op = "validate" /\ qa_arg \notin DocTypes) =>
          /\ \A k \in 1..5 : RecordedOnce(qa[1], InvoiceRuleNames[k])
          /\ Len(qa[1].passed_rules) + Len(qa[1].failed_rules) = 5

\* a medical bill scored as a "receipt": its patient_name is not one of the
\* critical fields, all four of which count as missing
C18_Witness ==
    /\ last_op = "score" /\ scoring[1].raised = "" /\ fields # <<>>
    /\ kind = "medical_bill"
    /\ scoring[1].doc_type = "receipt"
    /\ \E i \in 1..Len(fields) : fields[i].name = <<"p", "a", "t", "i", "e", "n", "t", "_", "n", "a", "m", "e">>
    /\ scoring[1].overall_confidence > 0

\* a step that is a call of validate_extraction
ValidateCalled == last_op' = "validate"

\* the call comes right after another one, with the same 'doc_type' key and
\* on the same day; the list is the same, no step having come in between
SameInputAgain == last_op = "validate" /\ qa_arg' = qa_arg /\ now' = now

StageRank ==
    [input |-> 0, classify |-> 1, extract |-> 2, score |-> 3, validate |-> 4,
     compile |-> 5, done |-> 6]

\* a step of process_document
StageRuns == pc' \in {"classify", "extract", "score", "validate", "compile", "done"}

\* the number the summary of a report gives for the low-confidence fields
NotedLowConfidence(report) ==
    LET at == {k \in 1..Len(report.notes) : report.notes[k].text = "low-confidence fields"}
    IN  IF at = {} THEN 0 ELSE report.notes[CHOOSE k \in at : TRUE].n

\* what a step of process_document may do
StageOrder ==
    /\ \/ StageRank[pc'] > StageRank[pc]
       \/ pc = "extract" /\ pc' = "extract" /\ attempt' = attempt + 1
    /\ text_content' # text_content => pc = "input"
    /\ doc_type' # doc_type => pc = "classify"
    /\ attempt' # attempt => pc = "extract"
    /\ scoring' # scoring => pc = "score"
    /\ qa' # qa => pc = "validate"
    /\ pc = "validate" =>
          /\ scoring # <<>> /\ scoring[1].raised = ""
          /\ \A i \in 1..Len(fields) : writer[i] = "scorer"
          /\ NotedLowConfidence(qa'[1])
               = Cardinality({i \in 1..Len(fields) : 10 * fields[i].confidence < 6 * CONF_ONE})
    /\ (pc = "input" /\ Len(Strip(text_content')) < 10) =>
          /\ pc' = "done"
          /\ doc_type' = "" /\ attempt' = 0 /\ scoring' = <<>> /\ qa' = <<>>

\* C20: in process_document the stages run at most once each and strictly
\* in the order text extraction, type classification, field extraction,
\* scoring, validation, compilation; validation starts only after the scorer
\* has written every field's confidence, so that its low-confidence count is
\* over the scored confidences; when the extracted text is insufficient,
\* none of classification, extraction, scoring and validation is invoked.
C20_StagesInOrder == [][StageRuns => StageOrder]_vars

\* a run through all six stages over two fields, one of which the scorer
\* left below 0.6
C20_Witness ==
    /\ pc = "done"
    /\ final_result[1].doc_type \in DocTypes
    /\ Len(fields) = 2
    /\ \A i \in 1..2 : writer[i] = "scorer"
    /\ NotedLowConfidence(final_result[1].qa) = 1

(***************************************************************************)
(* C21: the weighted sum of the four sub-scores and the blend with the     *)
(* confidence of the LLM                                                   *)
(***************************************************************************)

\* a call of calculate_field_confidence that returned
ScoreReturns == last_op' = "score" /\ scoring' # <<>> /\ scoring'[1].raised = ""

\* 0.3 * text_clarity + 0.25 * context_strength + 0.25 * pattern_match
\* + 0.2 * consistency, from the breakdown the call stored
RawScore(b) ==
    (30 * b.text_clarity + 25 * b.context_strength + 25 * b.pattern_match
       + 20 * b.consistency) \div 100

\* the final confidence the claim promises for the field 'before': the 0.7 /
\* 0.3 blend exactly when it carries a confidence greater than 0
PromisedFinal(before, b) ==
    Clamp01(IF before.rated /\ before.confidence > 0
            THEN (7 * RawScore(b) + 3 * before.confidence) \div 10
            ELSE RawScore(b))

BlendAsPromised(i) ==
    /\ fields'[i].breakdown # <<>>
    /\ fields'[i].confidence = PromisedFinal(fields[i], fields'[i].breakdown[1])
    /\ fields'[i].breakdown[1].final_confidence = fields'[i].confidence

\* C21: every field with a non-empty value leaves the scorer with
\* final = clamp(0.3 tc + 0.25 cs + 0.25 pm + 0.2 con), blended 0.7 / 0.3 with
\* the LLM confidence exactly when that confidence is provided and greater
\* than 0, stored as confidence and as confidence_breakdown.final_confidence
C21_WeightedBlend ==
    [][ScoreReturns =>
          \A i \in 1..Len(fields) : Truthy(fields[i].value) => BlendAsPromised(i)]_vars

\* the same for the fields that carry a confidence
C21_BlendWhenProvided ==
    [][ScoreReturns =>
          \A i \in 1..Len(fields) :
             Truthy(fields[i].value) /\ fields[i].rated => BlendAsPromised(i)]_vars

(***************************************************************************)
(* C22: text_clarity                                                       *)
(***************************************************************************)

\* the scorer returned and field i went through the sub-scores
Scored(i) ==
    /\ last_op = "score"
    /\ scoring # <<>>
    /\ scoring[1].raised = ""
    /\ fields[i].breakdown # <<>>

\* c * (tenths / 10) when hit
Penalised(c, hit, tenths) == IF hit THEN (c * tenths) \div 10 ELSE c

\* how many of the five OCR-noise patterns the value shows
NoiseCount(v) ==
    Cardinality({k \in 1..5 :
        CASE k = 1 -> HasRun(v, {"|"}, 2)
          [] k = 2 -> HasRun(v, {"0", "O"}, 3)
          [] k = 3 -> HasRun(v, {"I", "l", "1"}, 3)
          [] k = 4 -> HasRun(v, {"@", "#", "$", "%", "^", "&", "*"}, 2)
          [] k = 5 -> HasRun(v, SpaceSet, 3)})

RECURSIVE NoisePenalty(_, _)
NoisePenalty(c, n) == IF n = 0 THEN c ELSE NoisePenalty((c * 7) \div 10, n - 1)

\* 0.5 below 2 characters, 0.8 above 200
LengthPenalty(c, v) ==
    IF Len(Strip(v)) < 2 THEN (c * 5) \div 10
    ELSE IF Len(Strip(v)) > 200 THEN (c * 8) \div 10 ELSE c

\* 1.2 / 1.1 / 0.7 for a verbatim / fuzzy / no match, capped at 1.0
MatchFactor(c, v, text) ==
    Min(CONF_ONE,
        IF Contains(Lower(text), Lower(v)) THEN (c * 12) \div 10
        ELSE IF fuzzy_text_match(v, text) THEN (c * 11) \div 10
        ELSE (c * 7) \div 10)

\* a digit, one or more letters, a digit, in a row
EmbeddedDigits(v) ==
    \E i \in {p \in 1..Len(v) : v[p] \in DigitSet} :
        \E k \in {p \in 1..Len(v) : v[p] \in DigitSet /\ p > i + 1} :
            \A p \in (i + 1)..(k - 1) : v[p] \in AlphaSet

AddressField(name) == Contains(Lower(name), <<"a", "d", "d", "r", "e", "s", "s">>)

\* the text_clarity of the claim: the embedded-digit pattern costs 0.7 like
\* the other patterns, except in address-like fields
ClaimedClarity(f, text) ==
    MatchFactor(
        LengthPenalty(
            Penalised(NoisePenalty(CONF_ONE, NoiseCount(f.value.s)),
                      EmbeddedDigits(f.value.s) /\ ~AddressField(f.name), 7),
            f.value.s),
        f.value.s, text)

\* C22: text_clarity starts at 1.0, is multiplied by 0.7 for each detected
\* OCR-noise pattern, the embedded-digit pattern included unless the field is
\* address-like, then by 0.5 / 0.8 for a value under 2 / over 200 characters,
\* then by 1.2 / 1.1 / 0.7 for a verbatim / fuzzy / no match, capped at 1.0
C22_TextClarity ==
    \A i \in 1..Len(fields) :
        Scored(i) =>
            fields[i].breakdown[1].text_clarity = ClaimedClarity(fields[i], text_content)

\* the text_clarity with the embedded-digit pattern at 0.8, spared when the
\* value itself contains "address"
AmendedClarity(f, text) ==
    MatchFactor(
        LengthPenalty(
            Penalised(NoisePenalty(CONF_ONE, NoiseCount(f.value.s)),
                      EmbeddedDigits(f.value.s)
                         /\ ~Contains(Lower(f.value.s), <<"a", "d", "d", "r", "e", "s", "s">>), 8),
            f.value.s),
        f.value.s, text)

\* C22 (amended): as C22, but the embedded-digit pattern multiplies by 0.8,
\* not 0.7, and it is skipped when the value contains "address", whatever the
\* name of the field
C22_TextClarityAmended ==
    \A i \in 1..Len(fields) :
        Scored(i) =>
            fields[i].breakdown[1].text_clarity = AmendedClarity(fields[i], text_content)

\* an address field with digits around a letter has been scored against a
\* text that holds its value (0.8 * 1.2), and so has a value with two noise
\* patterns
C22_Witness ==
    \E i \in 1..Len(fields) : \E j \in 1..Len(fields) :
        /\ Scored(i) /\ Scored(j)
        /\ AddressField(fields[i].name) /\ EmbeddedDigits(fields[i].value.s)
        /\ text_content # <<>>
        /\ fields[i].breakdown[1].text_clarity = (CONF_ONE * 8 * 12) \div 100
        /\ NoiseCount(fields[j].value.s) = 2

(***************************************************************************)
(* C23: fuzzy_text_match, seen through the 1.1 it gives to text_clarity    *)
(***************************************************************************)

\* the clarity of the value before the source text is looked at
ClarityBeforeMatch(v) ==
    LengthPenalty(
        Penalised(NoisePenalty(CONF_ONE, NoiseCount(v)),
                  EmbeddedDigits(v) /\ ~Contains(Lower(v), <<"a", "d", "d", "r", "e", "s", "s">>), 8),
        v)

\* field i is not verbatim in the text, so that its clarity tells what
\* fuzzy_text_match answered
FuzzyAsked(i) ==
    Scored(i) /\ ~Contains(Lower(text_content), Lower(fields[i].value.s))

FuzzyMatched(i) ==
    fields[i].breakdown[1].text_clarity # (ClarityBeforeMatch(fields[i].value.s) * 7) \div 10

\* the word characters of the lower-cased value, in order
WordChars(v) == SelectSeq(Lower(v), LAMBDA c : c \in WordSet)

InText(c) == \E p \in 1..Len(text_content) : Lower(text_content)[p] = c

\* at least 80% of the distinct characters of the value are in the text
DistinctShare(v) ==
    LET distinct == {WordChars(v)[p] : p \in 1..Len(WordChars(v))}
    IN  /\ distinct # {}
        /\ text_content # <<>>
        /\ 100 * Cardinality({c \in distinct : InText(c)}) >= 80 * Cardinality(distinct)

\* C23: fuzzy_text_match succeeds exactly when at least 80% of the distinct
\* word characters of the lower-cased value occur in the source text, so
\* that repeating a character changes nothing; a value without word
\* characters and an empty source text never match
C23_FuzzyDistinct ==
    \A i \in 1..Len(fields) :
        FuzzyAsked(i) => (FuzzyMatched(i) <=> DistinctShare(fields[i].value.s))

\* at least 80% of the character positions of the value are in the text
PositionShare(v) ==
    /\ WordChars(v) # <<>>
    /\ text_content # <<>>
    /\ 100 * Cardinality({p \in 1..Len(WordChars(v)) : InText(WordChars(v)[p])})
          >= 80 * Len(WordChars(v))

\* C23 (amended): fuzzy_text_match succeeds exactly when at least 80% of the
\* word characters of the lower-cased value, each occurrence counted, occur
\* in the source text; a value without word characters and an empty source
\* text never match
C23_FuzzyPositions ==
    \A i \in 1..Len(fields) :
        FuzzyAsked(i) => (FuzzyMatched(i) <=> PositionShare(fields[i].value.s))

\* a value that repeats a character of the text has matched although half
\* of its distinct characters are missing from the text, and a value without
\* word characters has not matched
C23_Witness ==
    \E i \in 1..Len(fields) : \E j \in 1..Len(fields) :
        /\ FuzzyAsked(i) /\ FuzzyMatched(i) /\ ~DistinctShare(fields[i].value.s)
        /\ FuzzyAsked(j) /\ ~FuzzyMatched(j) /\ WordChars(fields[j].value.s) = <<>>

(***************************************************************************)
(* C24: pattern_match                                                      *)
(***************************************************************************)

\* the name contains "name" and not "file"
NameLike(name) == Contains(Lower(name), <<"n", "a", "m", "e">>) /\ ~Contains(Lower(name), <<"f", "i", "l", "e">>)

\* no digits, fewer than 3 characters other than letters, blanks, - and .
CleanName(v) ==
    /\ \A p \in 1..Len(v) : v[p] \notin DigitSet
    /\ Cardinality({p \in 1..Len(v) : v[p] \notin AlphaSet \cup SpaceSet \cup {"-", "."}}) < 3

\* the name asks for none of the shapes
ShapeFree(name) ==
    \A word \in {<<"d", "a", "t", "e">>, <<"a", "m", "o", "u", "n", "t">>, <<"t", "o", "t", "a", "l">>, <<"s", "u", "b", "t", "o", "t", "a", "l">>, <<"t", "a", "x">>, <<"c", "h", "a", "r", "g", "e">>, <<"p", "a", "i", "d">>,
                 <<"p", "h", "o", "n", "e">>, <<"e", "m", "a", "i", "l">>, <<"i", "d">>, <<"n", "u", "m", "b", "e", "r">>, <<"p", "o", "l", "i", "c", "y">>, <<"m", "e", "m", "b", "e", "r">>, <<"n", "a", "m", "e">>} :
        ~Contains(Lower(name), word)

\* C24: pattern_match is one of 0.5, 0.75, 0.8, 0.85, 0.9; a name-like field
\* (vendor_name, provider_name, ...) with a value without digits and with
\* fewer than 3 unusual characters gets 0.8; a field that matches no shape
\* check keeps 0.5
C24_PatternMatch ==
    \A i \in 1..Len(fields) :
        Scored(i) =>
            /\ fields[i].breakdown[1].pattern_match \in {5000, 7500, 8000, 8500, 9000}
            /\ NameLike(fields[i].name) /\ CleanName(fields[i].value.s)
                  => fields[i].breakdown[1].pattern_match = 8000
            /\ ShapeFree(fields[i].name) => fields[i].breakdown[1].pattern_match = 5000

\* the same for the name-like fields whose name holds none of the earlier
\* keywords
C24_PatternMatchOtherNames ==
    \A i \in 1..Len(fields) :
        Scored(i) =>
            /\ fields[i].breakdown[1].pattern_match \in {5000, 7500, 8000, 8500, 9000}
            /\ NameLike(fields[i].name) /\ CleanName(fields[i].value.s)
                  /\ ~Contains(Lower(fields[i].name), <<"i", "d">>)
                  => fields[i].breakdown[1].pattern_match = 8000
            /\ ShapeFree(fields[i].name) => fields[i].breakdown[1].pattern_match = 5000

(***************************************************************************)
(* C25: consistency                                                        *)
(***************************************************************************)

\* the value of the other field called name, for the field f of a list that
\* holds no two fields of one name
SiblingValue(f, name) ==
    IF f.name # name /\ \E k \in 1..Len(fields) : fields[k].name = name
    THEN fields[CHOOSE k \in 1..Len(fields) : fields[k].name = name].value
    ELSE VNull

\* the value reads as an amount
Numeric(v) == v.t = "num" \/ (v.t = "str" /\ ParseFloat(v.s).ok)

\* what the claim adds for a total: +0.2 when subtotal + tax_amount is within
\* 0.01 of it, -0.1 when it is not
TotalDelta(f) ==
    IF /\ Contains(Lower(f.name), <<"t", "o", "t", "a", "l">>)
       /\ Numeric(f.value)
       /\ Numeric(SiblingValue(f, <<"s", "u", "b", "t", "o", "t", "a", "l">>))
       /\ Numeric(SiblingValue(f, <<"t", "a", "x", "_", "a", "m", "o", "u", "n", "t">>))
    THEN IF Abs(CentsOf(SiblingValue(f, <<"s", "u", "b", "t", "o", "t", "a", "l">>)) + CentsOf(SiblingValue(f, <<"t", "a", "x", "_", "a", "m", "o", "u", "n", "t">>))
                  - CentsOf(f.value)) <= TOLERANCE_CENTS
         THEN 2000 ELSE -1000
    ELSE 0

\* what the claim adds for a due date: +0.1 when it is not before the
\* invoice date, -0.2 when it is
DueDelta(f) ==
    IF f.name = <<"d", "u", "e", "_", "d", "a", "t", "e">> /\ Truthy(SiblingValue(f, <<"i", "n", "v", "o", "i", "c", "e", "_", "d", "a", "t", "e">>))
    THEN IF ~StrLess(f.value.s, SiblingValue(f, <<"i", "n", "v", "o", "i", "c", "e", "_", "d", "a", "t", "e">>).s) THEN 1000 ELSE -2000
    ELSE 0

\* the names of the list differ from one another
DistinctNames ==
    \A k \in 1..Len(fields) : \A l \in 1..Len(fields) :
        fields[k].name = fields[l].name => k = l

\* C25: consistency is 0.7, plus 0.2 for a total within 0.01 of subtotal +
\* tax_amount (a difference of exactly 0.01 included) or minus 0.1 for one
\* that is not, plus 0.1 for a due_date not before invoice_date or minus 0.2
\* for one that is, clamped to [0, 1]
C25_Consistency ==
    \A i \in 1..Len(fields) :
        Scored(i) /\ DistinctNames
          /\ (Contains(Lower(fields[i].name), <<"t", "o", "t", "a", "l">>) \/ fields[i].name = <<"d", "u", "e", "_", "d", "a", "t", "e">>)
        => fields[i].breakdown[1].consistency
             = Clamp01(CONSISTENCY_BASE + TotalDelta(fields[i]) + DueDelta(fields[i]))

\* the same but for the totals that differ from the sum by exactly 0.01
C25_ConsistencyButOneCent ==
    \A i \in 1..Len(fields) :
        Scored(i) /\ DistinctNames
          /\ (Contains(Lower(fields[i].name), <<"t", "o", "t", "a", "l">>) \/ fields[i].name = <<"d", "u", "e", "_", "d", "a", "t", "e">>)
          /\ ~(/\ Numeric(fields[i].value) /\ Numeric(SiblingValue(fields[i], <<"s", "u", "b", "t", "o", "t", "a", "l">>))
               /\ Numeric(SiblingValue(fields[i], <<"t", "a", "x", "_", "a", "m", "o", "u", "n", "t">>))
               /\ Abs(CentsOf(SiblingValue(fields[i], <<"s", "u", "b", "t", "o", "t", "a", "l">>))
                        + CentsOf(SiblingValue(fields[i], <<"t", "a", "x", "_", "a", "m", "o", "u", "n", "t">>))
                        - CentsOf(fields[i].value)) = TOLERANCE_CENTS)
        => fields[i].breakdown[1].consistency
             = Clamp01(CONSISTENCY_BASE + TotalDelta(fields[i]) + DueDelta(fields[i]))

(***************************************************************************)
(* C26: the overall confidence                                             *)
(***************************************************************************)

\* the critical field names of the type the scorer was called with
CriticalOf(type) ==
    {CriticalNames(type)[k] : k \in 1..Len(CriticalNames(type))}

Present(name) == \E i \in 1..Len(fields) : fields[i].name = name

\* a field of that name is in the list with a confidence above 0.8
PresentAndSure(name) ==
    \E i \in 1..Len(fields) : fields[i].name = name /\ fields[i].confidence > 8000

\* mean - min(0.2, 0.5 * stdev) + bonus - penalty + min(0.1, 0.01 * count)
OverallFormula(type) ==
    LET n        == Len(fields)
        total    == SumSeq([i \in 1..n |-> fields[i].confidence])
        mean     == total \div n
        variance == SumSeq([i \in 1..n |-> (fields[i].confidence - mean)
                                            * (fields[i].confidence - mean)]) \div n
        stdev    == CHOOSE r \in 0..CONF_ONE : r * r <= variance /\ (r + 1) * (r + 1) > variance
        bonus    == 500 * Cardinality({c \in CriticalOf(type) : PresentAndSure(c)})
        penalty  == 1000 * Cardinality({c \in CriticalOf(type) : ~Present(c)})
    IN  Clamp01(mean - Min(2000, stdev \div 2) + bonus - penalty + Min(1000, 100 * n))

FirstCalled(name) ==
    IF Present(name)
    THEN CHOOSE i \in 1..Len(fields) :
            fields[i].name = name /\ \A j \in 1..(i - 1) : fields[j].name # name
    ELSE 0

\* the last record called name, 0 when there is none
LastCalled(name) ==
    IF Present(name)
    THEN CHOOSE i \in 1..Len(fields) :
            fields[i].name = name /\ \A j \in (i + 1)..Len(fields) : fields[j].name # name
    ELSE 0

\* the consistency of a due date against the invoice date of record k
DueAgainst(i, k) ==
    IF ~StrLess(fields[i].value.s, fields[k].value.s)
    THEN CONSISTENCY_BASE + 1000 ELSE CONSISTENCY_BASE - 2000

\* the sibling lookup of the scorer reads record Pick(invoice_date)
SiblingReads(Pick(_)) ==
    \A i \in 1..Len(fields) :
        Scored(i) /\ fields[i].name = <<"d", "u", "e", "_", "d", "a", "t", "e">>
          /\ Present(<<"i", "n", "v", "o", "i", "c", "e", "_", "d", "a", "t", "e">>) /\ Truthy(fields[Pick(<<"i", "n", "v", "o", "i", "c", "e", "_", "d", "a", "t", "e">>)].value)
        => fields[i].breakdown[1].consistency = DueAgainst(i, Pick(<<"i", "n", "v", "o", "i", "c", "e", "_", "d", "a", "t", "e">>))

\* the overall confidence, the bonus going by the first record of a name
OverallFirst(type) ==
    LET n        == Len(fields)
        total    == SumSeq([i \in 1..n |-> fields[i].confidence])
        mean     == total \div n
        variance == SumSeq([i \in 1..n |-> (fields[i].confidence - mean)
                                            * (fields[i].confidence - mean)]) \div n
        stdev    == CHOOSE r \in 0..CONF_ONE : r * r <= variance /\ (r + 1) * (r + 1) > variance
        bonus    == 500 * Cardinality({c \in CriticalOf(type) :
                              Present(c) /\ fields[FirstCalled(c)].confidence > 8000})
        penalty  == 1000 * Cardinality({c \in CriticalOf(type) : ~Present(c)})
    IN  Clamp01(mean - Min(2000, stdev \div 2) + bonus - penalty + Min(1000, 100 * n))

BonusReadsFirst ==
    /\ last_op = "score" /\ scoring # <<>> /\ scoring[1].raised = ""
    /\ fields # <<>>
    => scoring[1].overall_confidence = OverallFirst(scoring[1].doc_type)

\* C27: when several records of a list have the same name, a lookup by name
\* resolves to the first of them: the sibling lookups of the scorer read the
\* value of the first record, and the critical-field bonus reads the
\* confidence of the first record
C27_FirstOccurrence == SiblingReads(FirstCalled) /\ BonusReadsFirst

\* what holds instead: the sibling lookup reads the last record, the bonus
\* the first
C27_LastForSiblings == SiblingReads(LastCalled) /\ BonusReadsFirst

(***************************************************************************)
(* C28: zero confidence and empty values                                   *)
(***************************************************************************)

\* the scorer returned a result for the list
ScoreReturned == last_op = "score" /\ scoring # <<>> /\ scoring[1].raised = ""

\* None or ''
NullOrEmpty(v) == v.t = "null" \/ (v.t = "str" /\ v.s = <<>>)

\* C28: after scoring, a field has confidence exactly 0 if and only if its
\* value is null or empty; every field with a non-empty value ends with a
\* confidence strictly greater than 0, whatever the source text, the sibling
\* fields and the confidence of the LLM
C28_ZeroIffEmpty ==
    ScoreReturned =>
        \A i \in 1..Len(fields) : fields[i].confidence = 0 <=> NullOrEmpty(fields[i].value)

\* the same with the values that Python takes for false, the number 0 among
\* them, in the place of the null and empty ones
C28_ZeroIffFalsy ==
    ScoreReturned =>
        \A i \in 1..Len(fields) : fields[i].confidence = 0 <=> ~Truthy(fields[i].value)

(***************************************************************************)
(* C29: warnings come with failures                                        *)
(***************************************************************************)

NotesPart(report, text) == \E k \in 1..Len(report.notes) : report.notes[k].text = text

\* the warning was booked with a failure of the same rule
BookedWithFailure(report, w) ==
    \E k \in 1..Len(report.failed_rules) :
        report.failed_rules[k] \in {w.rule, w.rule \o "_error"}

\* C29: in every report of validate_extraction each warning was appended
\* together with a failed_rules entry: there are at most as many warnings as
\* failed rules, a report without failed rules has no warnings, and the notes
\* never hold the "warnings" part without the "validation rules failed" part
C29_WarningsWithFailures ==
    qa # <<>> =>
        /\ \A k \in 1..Len(qa[1].warnings) : BookedWithFailure(qa[1], qa[1].warnings[k])
        /\ Len(qa[1].warnings) <= Len(qa[1].failed_rules)
        /\ qa[1].failed_rules = <<>> => qa[1].warnings = <<>>
        /\ NotesPart(qa[1], "warnings") => NotesPart(qa[1], "validation rules failed")

\* a report with a warning among several failures, the notes holding both
\* parts
C29_Witness ==
    /\ qa # <<>>
    /\ qa[1].warnings # <<>>
    /\ Len(qa[1].warnings) < Len(qa[1].failed_rules)
    /\ NotesPart(qa[1], "warnings")

(***************************************************************************)
(* C30: what calculate_field_confidence changes                            *)
(***************************************************************************)

\* field i of the returned list is field i of the input but for confidence
\* and confidence_breakdown
KeepsIdentity(i) ==
    /\ fields'[i].name = fields[i].name
    /\ fields'[i].value = fields[i].value
    /\ fields'[i].source = fields[i].source

HasFinalBreakdown(i) ==
    /\ fields'[i].breakdown # <<>>
    /\ fields'[i].breakdown[1].final_confidence = fields'[i].confidence

\* C30: calculate_field_confidence changes only the confidence and the
\* confidence_breakdown of a field: the returned list has the length and the
\* order of the input, every field keeps its name, value and source, every
\* field with a non-empty value carries a breakdown whose final_confidence is
\* its confidence, and field_count is the number of input fields
C30_ScoringFrame ==
    [][ScoreReturns =>
          /\ Len(fields') = Len(fields)
          /\ \A i \in 1..Len(fields) :
                /\ KeepsIdentity(i)
                /\ ~NullOrEmpty(fields[i].value) => HasFinalBreakdown(i)
          /\ scoring'[1].field_count = Len(fields)]_vars

\* the same, a breakdown being asked only of the values that Python takes
\* for true
C30_ScoringFrameTruthy ==
    [][ScoreReturns =>
          /\ Len(fields') = Len(fields)
          /\ \A i \in 1..Len(fields) :
                /\ KeepsIdentity(i)
                /\ Truthy(fields[i].value) => HasFinalBreakdown(i)
          /\ scoring'[1].field_count = Len(fields)]_vars

====
